---- MODULE Spec2Model ----
(***************************************************************************)
(* A model of z0rr0/enigma: the secret record kept in a Redis hash (fields *)
(* content, password, times and a key expiry), Item.Save / Item.Read and   *)
(* the HTTP handlers create / Read / get.  Every Redis command is one      *)
(* atomic step; a request is a process that moves from command to command. *)
(* Go strings are TLA+ strings, []byte values sequences of 0..255.          *)
(***************************************************************************)
EXTENDS Integers, Sequences, FiniteSets, TLC

\* ------------------------------------------------------------- bounds
NumProcs == 3
NumClients == 2
MaxTimes == 2

\* ---------------------------------------------------- program constants
KeyLen == 64
maxCollisions == 16
BlockSize == 16
StatusOK == 200
StatusBadRequest == 400
StatusNotFound == 404
StatusInternalServerError == 500

Min(a, b) == IF a < b THEN a ELSE b

Procs == 1..NumProcs
\* the processes on which requests arrive where requests arrive at all
Clients == 1..Min(NumClients, NumProcs)

\* Go strings are TLA+ strings; Len, \o and SubSeq act on their characters.
EmptyString == ""

fieldContent == "content"
fieldPassword == "password"
fieldTimes == "times"

\* ------------------------------------------------------- key generation
\* hex.EncodeToString: two lowercase hex digits per byte, high nibble first.
hextable == <<"0", "1", "2", "3", "4", "5", "6", "7",
              "8", "9", "a", "b", "c", "d", "e", "f">>

RECURSIVE EncodeFrom(_, _)
EncodeFrom(b, i) ==
    IF i > Len(b) THEN ""
    ELSE hextable[(b[i] \div 16) + 1] \o hextable[(b[i] % 16) + 1] \o EncodeFrom(b, i + 1)

EncodeToString(b) == EncodeFrom(b, 1)

\* What rand.Read may put into the KeyLen-byte buffer: a small pool of
\* buffers, so that two draws can coincide.
RandSeeds == {10, 243}
RandBuffers == {[i \in 1..KeyLen |-> (s + 7 * i) % 256] : s \in RandSeeds}

getKey(b) == EncodeToString(b)

Keys == {getKey(b) : b \in RandBuffers}

\* ---------------------------------------------------------------- codec
\* The 32 bytes of the configured service key, and the IVs rand may draw.
ServiceKey == "0123456789abcdefghijklmnopqrstuv"
IVPool == {[i \in 1..BlockSize |-> (11 * i) % 256]}

\* key = (bytes of password) + (bytes of default key)
cipherKeyAppended(password, skey) ==
    IF password = EmptyString THEN skey ELSE password \o skey

cipherKey(password, skey) ==
    IF password = EmptyString THEN skey
    ELSE LET n == Len(skey)
             m == Min(Len(password), n)
         IN  SubSeq(password, 1, m) \o SubSeq(skey, m + 1, n)

\* ----------------------------------------------------- bytes of strings
\* []byte(str) and string(b) for strings of digits, letters and blanks; a
\* byte outside these is written %xx.
Digits == "0123456789"
Upper == "ABCDEFGHIJKLMNOPQRSTUVWXYZ"
Lower == "abcdefghijklmnopqrstuvwxyz"

In(c, str) == \E i \in 1..Len(str) : SubSeq(str, i, i) = c
Index(c, str) == CHOOSE i \in 1..Len(str) : SubSeq(str, i, i) = c

Letters(str) == {SubSeq(str, i, i) : i \in 1..Len(str)}

\* The byte of each character, computed once.
OrdTable ==
    [c \in Letters(Digits) \cup Letters(Upper) \cup Letters(Lower) |->
        IF In(c, Digits) THEN 47 + Index(c, Digits)
        ELSE IF In(c, Upper) THEN 64 + Index(c, Upper)
        ELSE 96 + Index(c, Lower)]

Ord(c) == IF c \in DOMAIN OrdTable THEN OrdTable[c] ELSE 32

Chr(n) ==
    IF n \in 48..57 THEN SubSeq(Digits, n - 47, n - 47)
    ELSE IF n \in 65..90 THEN SubSeq(Upper, n - 64, n - 64)
    ELSE IF n \in 97..122 THEN SubSeq(Lower, n - 96, n - 96)
    ELSE IF n = 32 THEN " "
    ELSE "%" \o hextable[(n \div 16) + 1] \o hextable[(n % 16) + 1]

Bytes(str) == [i \in 1..Len(str) |-> Ord(SubSeq(str, i, i))]

RECURSIVE StringFrom(_, _)
StringFrom(b, i) == IF i > Len(b) THEN "" ELSE Chr(b[i]) \o StringFrom(b, i + 1)

String(b) == StringFrom(b, 1)

\* hex.DecodeString: [err, bytes]; an odd length or a character that is no
\* hex digit is an error.
HexTable ==
    [c \in Letters(Digits) \cup Letters("abcdef") \cup Letters("ABCDEF") |->
        IF In(c, Digits) THEN Index(c, Digits) - 1
        ELSE IF In(c, "abcdef") THEN Index(c, "abcdef") + 9
        ELSE Index(c, "ABCDEF") + 9]

HexValue(c) == IF c \in DOMAIN HexTable THEN HexTable[c] ELSE -1

DecodeString(str) ==
    IF Len(str) % 2 = 1 THEN [err |-> "encoding/hex: odd length hex string", bytes |-> << >>]
    ELSE IF \E i \in 1..Len(str) : HexValue(SubSeq(str, i, i)) < 0
    THEN [err |-> "encoding/hex: invalid byte", bytes |-> << >>]
    ELSE [err |-> "",
          bytes |-> [i \in 1..(Len(str) \div 2) |->
                        16 * HexValue(SubSeq(str, 2 * i - 1, 2 * i - 1))
                           + HexValue(SubSeq(str, 2 * i, 2 * i))]]

\* ------------------------------------------------------------- AES-CFB
\* aes.NewCipher accepts keys of 16, 24 or 32 bytes.
NewCipherOk(key) == Len(key) \in {16, 24, 32}

RECURSIVE Xor(_, _)
Xor(a, b) == IF a = 0 /\ b = 0 THEN 0 ELSE ((a + b) % 2) + 2 * Xor(a \div 2, b \div 2)

RECURSIVE KeySum(_, _)
KeySum(k, i) == IF i > Len(k) THEN 0 ELSE (i * k[i] + KeySum(k, i + 1)) % 256

\* The block cipher, a stand-in for AES: a function of all bytes of the key
\* and of the 16-byte block.  CFB uses only its forward direction.
Block(k, b) ==
    LET sum == KeySum(k, 1) IN
    [i \in 1..BlockSize |-> (5 * b[i] + 3 * k[((i - 1) % Len(k)) + 1] + sum + 17 * i) % 256]

\* cipher.NewCFBEncrypter(block, iv).XORKeyStream(dst, plain): each block of
\* plaintext is xor-ed with the encryption of the ciphertext block before it.
RECURSIVE CFBEncrypt(_, _, _)
CFBEncrypt(k, prev, plain) ==
    IF Len(plain) = 0 THEN << >>
    ELSE LET stream == Block(k, prev)
             n == Min(BlockSize, Len(plain))
             c == [i \in 1..n |-> Xor(plain[i], stream[i])]
         IN  c \o CFBEncrypt(k, c, SubSeq(plain, n + 1, Len(plain)))

\* cipher.NewCFBDecrypter(block, iv).XORKeyStream(dst, cipherText)
RECURSIVE CFBDecryptPlainFeedback(_, _, _)
CFBDecryptPlainFeedback(k, prev, cipherText) ==
    IF Len(cipherText) = 0 THEN << >>
    ELSE LET stream == Block(k, prev)
             n == Min(BlockSize, Len(cipherText))
             c == SubSeq(cipherText, 1, n)
             plain == [i \in 1..n |-> Xor(c[i], stream[i])]
         IN  plain \o CFBDecryptPlainFeedback(k, plain, SubSeq(cipherText, n + 1, Len(cipherText)))
RECURSIVE CFBDecrypt(_, _, _)
CFBDecrypt(k, prev, cipherText) ==
    IF Len(cipherText) = 0 THEN << >>
    ELSE LET stream == Block(k, prev)
             n == Min(BlockSize, Len(cipherText))
             c == SubSeq(cipherText, 1, n)
         IN  [i \in 1..n |-> Xor(c[i], stream[i])]
                 \o CFBDecrypt(k, c, SubSeq(cipherText, n + 1, Len(cipherText)))

\* Item.encrypt answers [err, eContent]: eContent is the hex of the IV
\* followed by the ciphertext.  When aes.NewCipher fails it returns nil and
\* leaves item.eContent as it was.
encrypt(it, skey, iv) ==
    LET key == cipherKey(it.Password, skey) IN
    IF Len(skey) = 0 THEN [err |-> "empty item key for encyption", eContent |-> it.eContent]
    ELSE IF it.Content = EmptyString THEN [err |-> "empty plainText", eContent |-> it.eContent]
    ELSE IF ~NewCipherOk(key) THEN [err |-> "", eContent |-> it.eContent]
    ELSE [err |-> "",
          eContent |-> EncodeToString(iv \o CFBEncrypt(Bytes(key), iv, Bytes(it.Content)))]

\* Item.decrypt answers [err, Content].
decrypt(it, skey) ==
    LET d == DecodeString(it.eContent)
        key == cipherKey(it.Password, skey)
    IN  IF it.eContent = EmptyString THEN [err |-> "empty cipherText", Content |-> it.Content]
        ELSE IF d.err # "" THEN [err |-> d.err, Content |-> it.Content]
        ELSE IF Len(d.bytes) < BlockSize
        THEN [err |-> "invalid cipher block length", Content |-> it.Content]
        ELSE IF ~NewCipherOk(key)
        THEN [err |-> "new cipher creation", Content |-> it.Content]
        ELSE [err |-> "",
              Content |-> String(CFBDecrypt(Bytes(key), SubSeq(d.bytes, 1, BlockSize),
                                            SubSeq(d.bytes, BlockSize + 1, Len(d.bytes))))]

\* The passwords and plaintexts of the requests, and what encrypt makes of
\* them; decrypt's answer for each of these under each password, computed
\* once.
Passwords == {"", "abc", "bad"}
Contents == {"secret"}
Sealed ==
    {encrypt([Password |-> w, Content |-> c, eContent |-> ""], ServiceKey, iv).eContent :
        w \in Passwords, c \in Contents, iv \in IVPool}
Encrypted ==
    {<<w, c, iv, encrypt([Password |-> w, Content |-> c, eContent |-> ""], ServiceKey, iv)>> :
        w \in Passwords, c \in Contents, iv \in IVPool}
Decrypted ==
    {<<e, w, decrypt([Password |-> w, Content |-> "", eContent |-> e], ServiceKey)>> :
        e \in Sealed, w \in Passwords}

hashPasswordKeyOnly(password, key) == "sha512(" \o key \o ")"

\* hex(SHA-512(password + key)), SHA-512 kept abstract (collision free).
hashPassword(password, key) == "sha512(" \o password \o key \o ")"

\* ---------------------------------------------------------------- store
\* One Redis hash per key.  fields is the set of fields present; a key with
\* no field does not exist.  ttl = 0 means the key has no expiry.
NoHash == [fields |-> {}, content |-> "", password |-> "", times |-> 0, ttl |-> 0]

HexistsAnyField(h, f) == h.fields # {}
HEXISTS(h, f) == f \in h.fields
\* HINCRBY key times -1: a missing key or field counts as 0.
HincrbyLostUpdate(h) ==
    [h EXCEPT !.fields = @ \cup {fieldTimes},
              !.times = IF fieldTimes \in h.fields THEN h.times ELSE 0]
HINCRBY(h) ==
    [h EXCEPT !.fields = @ \cup {fieldTimes},
              !.times = (IF fieldTimes \in h.fields THEN h.times ELSE 0) - 1]
\* DEL key: the key is gone; the reply tells whether it was there.
DelKeepsContent(h) == [h EXCEPT !.fields = @ \ {fieldTimes}, !.times = 0]
DEL(h) == NoHash
DelReplyIgnored(h) == TRUE
DelReply(h) == h.fields # {}
\* MULTI; HSET content; HSET password; HSET times; EXPIRE; EXEC
ExecPlain(h, it) ==
    [fields |-> h.fields \cup {fieldContent, fieldPassword, fieldTimes},
     content |-> it.eContent, password |-> it.Password,
     times |-> it.Times, ttl |-> it.TTL]
ExecWithoutExpire(h, it) ==
    [fields |-> h.fields \cup {fieldContent, fieldPassword, fieldTimes},
     content |-> it.eContent, password |-> it.hPassword,
     times |-> it.Times, ttl |-> h.ttl]
Exec(h, it) ==
    [fields |-> h.fields \cup {fieldContent, fieldPassword, fieldTimes},
     content |-> it.eContent, password |-> it.hPassword,
     times |-> it.Times, ttl |-> it.TTL]
\* The four replies of EXEC: HSET answers 1 only for a new field.
ExecReplies(h) ==
    <<fieldContent \notin h.fields, fieldPassword \notin h.fields,
      fieldTimes \notin h.fields, TRUE>>

VARIABLES
    db,      \* the store: key -> hash
    req,     \* the HTTP request a process serves
    ended,   \* history: the record last written under a key was deleted by the
             \* read that took its counter to zero, or expired
    quota,   \* history: the Times the last record written under a key was saved with
    CipherKey, \* cfg.CipherKey: the service key of the running server
    issued,  \* history: how many HINCRBY and EXEC commands the request a process
             \* serves has sent to the store
    main,    \* the process: where func main and its signal goroutine are, the
             \* http.Server, the pending signal and the exit status
    kind,    \* the request a process serves: idle, read, fetch, consume, create
    pc,      \* the store command a process issues next
    item,    \* the request's db.Item
    times,   \* Item.Read: the reply of HINCRBY
    content, \* Item.Read: the reply of HGET content
    tries,   \* generateKey: the loop counter i
    ret,     \* what Item.Read / Item.Save returned, once it has ("" is a nil error)
    code,    \* the HTTP status answered (0: none yet)
    body,    \* what was rendered into the response
    conn     \* history: how often the request a process serves has called
             \* pool.Get and conn.Close

vars == <<db, ended, quota, CipherKey, issued, main, kind, req, pc, item, times, content, tries, ret, code, body, conn>>

NoItem == [Key |-> EmptyString, Password |-> EmptyString, Content |-> EmptyString,
           Times |-> 0, TTL |-> 0, eContent |-> "", hPassword |-> ""]

\* The record Save has written for a form, as Save leaves it in the store.
Saved(key, plainText, password, n, ttl) ==
    [fields |-> {fieldContent, fieldPassword, fieldTimes},
     content |-> encrypt([NoItem EXCEPT !.Content = plainText, !.Password = password],
                         ServiceKey, CHOOSE iv \in IVPool : TRUE).eContent,
     password |-> hashPassword(password, key),
     times |-> n, ttl |-> ttl]

TheKey == CHOOSE k \in Keys : TRUE

NoneIssued == [HINCRBY |-> 0, EXEC |-> 0]
NoConn == [Get |-> 0, Close |-> 0]

\* The deferred conn.Close of a handler that returns: one for each pool.Get.
Deferred(p) == [conn EXCEPT ![p].Close = @ + conn[p].Get]

\* The process once main has started the signal goroutine and ListenAndServe
\* is accepting connections.
Serving ==
    [pc |-> "ListenAndServe", goroutine |-> "sigint", srv |-> "listening",
     sigint |-> 0, idleConnsClosed |-> FALSE, exit |-> "", err |-> "",
     pool |-> TRUE, dialed |-> TRUE]

TestTTL == 60

NoRequest == [method |-> "", key |-> "", content |-> "", ttl |-> "", times |-> "",
              password |-> "", host |-> ""]
NoRet == [returned |-> FALSE, ok |-> FALSE, err |-> ""]
NoBody == [tpl |-> "", msg |-> "", data |-> ""]

ErrorGeneric(c) == [tpl |-> "error", msg |-> "Sorry, it is an error", data |-> ""]

\* web.Error: the error page; the message goes by the status code.
Error(c) ==
    [tpl |-> "error",
     msg |-> CASE c = StatusNotFound -> "Page not found"
               [] c = StatusBadRequest -> "Bad createData"
               [] OTHER -> "Sorry, it is an error",
     data |-> ""]

\* ------------------------------------------------------------ Item.Read
\* Item.Read returns (delivered, e) to its caller.  For a consume request the
\* caller is web.get, which answers 500 on an error, 404 when nothing was
\* delivered and otherwise renders the decrypted content.
getStatus(delivered, e) ==
    IF e # "" THEN StatusInternalServerError
    ELSE IF ~delivered THEN StatusNotFound
    ELSE StatusOK

ReadReturn(p, it, delivered, e) ==
    /\ item' = [item EXCEPT ![p] = it]
    /\ ret' = [ret EXCEPT ![p] = [returned |-> TRUE, ok |-> delivered, err |-> e]]
    /\ pc' = [pc EXCEPT ![p] = "done"]
    /\ conn' = IF kind[p] = "consume" THEN Deferred(p) ELSE conn
    /\ code' = [code EXCEPT ![p] =
                  IF kind[p] = "consume" THEN getStatus(delivered, e) ELSE @]
    /\ body' = [body EXCEPT ![p] =
                  IF kind[p] # "consume" THEN @
                  ELSE IF getStatus(delivered, e) = StatusOK
                       THEN [tpl |-> "content", msg |-> "", data |-> it.Content]
                       ELSE Error(getStatus(delivered, e))]

\* The tail of Item.Read once content is fetched (and the key deleted when
\* times = 0): item.Times, item.eContent are set and the content decrypted.
ReadDecrypt(p, e) ==
    LET it == [item[p] EXCEPT !.Times = times[p], !.eContent = e]
        known == {x \in Decrypted : x[1] = e /\ x[2] = it.Password}
        d == IF it.Content = "" /\ CipherKey = ServiceKey /\ known # {}
             THEN (CHOOSE x \in known : TRUE)[3]
             ELSE decrypt(it, CipherKey)
    IN  ReadReturn(p, [it EXCEPT !.Content = d.Content], d.err = "", d.err)

ReadAnySign(p) ==
    /\ pc[p] = "Read"
    /\ IF item[p].Key = EmptyString
       THEN /\ ReadReturn(p, item[p], FALSE, "")
            /\ UNCHANGED <<db, ended, quota, CipherKey, issued, main, kind, req, times, content, tries>>
       ELSE LET k == item[p].Key
                h == HINCRBY(db[k])
            IN  /\ db' = [db EXCEPT ![k] = h]
                /\ times' = [times EXCEPT ![p] = h.times]
                /\ pc' = [pc EXCEPT ![p] = "ReadContent"]
                /\ issued' = [issued EXCEPT ![p].HINCRBY = @ + 1]
                /\ UNCHANGED <<ended, quota, CipherKey, main, kind, req, item, content, tries, ret, code, body, conn>>

\* if item.Key == "" return; times := HINCRBY key times -1
Read(p) ==
    /\ pc[p] = "Read"
    /\ IF item[p].Key = EmptyString
       THEN /\ ReadReturn(p, item[p], FALSE, "")
            /\ UNCHANGED <<db, ended, quota, CipherKey, issued, main, kind, req, times, content, tries>>
       ELSE LET k == item[p].Key
                h == HINCRBY(db[k])
            IN  /\ db' = [db EXCEPT ![k] = h]
                /\ times' = [times EXCEPT ![p] = h.times]
                /\ pc' = [pc EXCEPT ![p] = IF h.times < 0 THEN "ReadExists" ELSE "ReadContent"]
                /\ issued' = [issued EXCEPT ![p].HINCRBY = @ + 1]
                /\ UNCHANGED <<ended, quota, CipherKey, main, kind, req, item, content, tries, ret, code, body, conn>>

ReadExistsBlind(p) ==
    /\ pc[p] = "ReadExists"
    /\ pc' = [pc EXCEPT ![p] = "ReadRepair"]
    /\ UNCHANGED <<db, ended, quota, CipherKey, issued, main, kind, req, item, times, content, tries, ret, code, body, conn>>

\* times < 0: ok := item.Exists(c)
ReadExists(p) ==
    /\ pc[p] = "ReadExists"
    /\ IF HEXISTS(db[item[p].Key], fieldContent)
       THEN /\ ReadReturn(p, item[p], FALSE, "")
            /\ UNCHANGED <<db, ended, quota, CipherKey, issued, main, kind, req, times, content, tries>>
       ELSE /\ pc' = [pc EXCEPT ![p] = "ReadRepair"]
            /\ UNCHANGED <<db, ended, quota, CipherKey, issued, main, kind, req, item, times, content, tries, ret, code, body, conn>>

ReadRepairSkipped(p) ==
    /\ pc[p] = "ReadRepair"
    /\ db' = db
    /\ ReadReturn(p, item[p], FALSE, "")
    /\ UNCHANGED <<ended, quota, CipherKey, issued, main, kind, req, times, content, tries>>

\* times < 0 and the item does not exist: item.delete(c), its reply ignored
ReadRepair(p) ==
    /\ pc[p] = "ReadRepair"
    /\ db' = [db EXCEPT ![item[p].Key] = DEL(@)]
    /\ ReadReturn(p, item[p], FALSE, "")
    /\ UNCHANGED <<ended, quota, CipherKey, issued, main, kind, req, times, content, tries>>

\* times >= 0: content := HGET key content (a missing field is redis.ErrNil)
ReadContent(p) ==
    /\ pc[p] = "ReadContent"
    /\ LET h == db[item[p].Key] IN
       IF ~HEXISTS(h, fieldContent)
       THEN /\ ReadReturn(p, item[p], FALSE, "redigo: nil returned")
            /\ UNCHANGED <<db, ended, quota, CipherKey, issued, main, kind, req, times, content, tries>>
       ELSE IF times[p] = 0
       THEN /\ content' = [content EXCEPT ![p] = h.content]
            /\ pc' = [pc EXCEPT ![p] = "ReadDelete"]
            /\ UNCHANGED <<db, ended, quota, CipherKey, issued, main, kind, req, item, times, tries, ret, code, body, conn>>
       ELSE /\ ReadDecrypt(p, h.content)
            /\ UNCHANGED <<db, ended, quota, CipherKey, issued, main, kind, req, times, content, tries>>

\* times == 0: ok := item.delete(c); DEL answers whether the key was there
ReadDelete(p) ==
    /\ pc[p] = "ReadDelete"
    /\ db' = [db EXCEPT ![item[p].Key] = DEL(@)]
    /\ ended' = [ended EXCEPT ![item[p].Key] = TRUE]
    /\ IF ~DelReply(db[item[p].Key])
       THEN ReadReturn(p, item[p], FALSE, "item was not deleted")
       ELSE ReadDecrypt(p, content[p])
    /\ UNCHANGED <<quota, CipherKey, issued, main, kind, req, times, content, tries>>

ItemRead(p) ==
    \/ Read(p)
    \/ ReadExists(p)
    \/ ReadRepair(p)
    \/ ReadContent(p)
    \/ ReadDelete(p)

\* ------------------------------------------------- concurrent Item.Read
\* One record saved under TheKey with Times = T; every process calls
\* Item.Read on it (db_test.go, TestItem_Read).  No expiry, no store failure.
InitRead ==
    /\ \E T \in 1..MaxTimes :
         db = [k \in Keys |-> IF k = TheKey
                              THEN Saved(TheKey, "secret", "abc", T, TestTTL)
                              ELSE NoHash]
    /\ quota = [k \in Keys |-> IF k = TheKey THEN db[k].times ELSE 0]
    /\ CipherKey = ServiceKey
    /\ ended = [k \in Keys |-> FALSE]
    /\ kind = [p \in Procs |-> "read"]
    /\ req = [p \in Procs |-> NoRequest]
    /\ pc = [p \in Procs |-> "Read"]
    /\ item = [p \in Procs |-> [NoItem EXCEPT !.Key = TheKey, !.Password = "abc"]]
    /\ issued = [p \in Procs |-> NoneIssued]
    /\ times = [p \in Procs |-> 0]
    /\ content = [p \in Procs |-> ""]
    /\ tries = [p \in Procs |-> 0]
    /\ ret = [p \in Procs |-> NoRet]
    /\ code = [p \in Procs |-> 0]
    /\ conn = [p \in Procs |-> NoConn]
    /\ main = Serving
    /\ body = [p \in Procs |-> NoBody]

NextRead == \E p \in Procs : ItemRead(p)

SpecRead == InitRead /\ [][NextRead]_vars

FairSpecRead == SpecRead /\ \A p \in Procs : WF_vars(ItemRead(p))

\* -------------------------------------------------------- HTTP handlers
\* A request r: [method, key, content, ttl, times, password, host]; key is
\* the request URI trimmed of "/ ", the rest are the POST form values.
Idle(p) == kind[p] = "idle" /\ pc[p] = "idle"

\* The handler answers status c with rendered page b and returns.
RespondKeepsConn(p, c, b) ==
    /\ code' = [code EXCEPT ![p] = c]
    /\ body' = [body EXCEPT ![p] = b]
    /\ conn' = conn
    /\ pc' = [pc EXCEPT ![p] = "done"]

Respond(p, c, b) ==
    /\ code' = [code EXCEPT ![p] = c]
    /\ body' = [body EXCEPT ![p] = b]
    /\ conn' = Deferred(p)
    /\ pc' = [pc EXCEPT ![p] = "done"]

\* web.Read up to the borrowed connection: a key of the wrong length is 404.
WebReadAnyLength(p, r) ==
    /\ Idle(p)
    /\ kind' = [kind EXCEPT ![p] = IF r.method = "POST" THEN "consume" ELSE "fetch"]
    /\ req' = [req EXCEPT ![p] = r]
    /\ item' = [item EXCEPT ![p] = [NoItem EXCEPT !.Key = r.key]]
    /\ pc' = [pc EXCEPT ![p] = "Exists"]
    /\ conn' = [conn EXCEPT ![p].Get = @ + 1]
    /\ UNCHANGED <<code, body, db, ended, quota, CipherKey, issued, main, times, content, tries, ret>>
WebRead(p, r) ==
    /\ Idle(p)
    /\ kind' = [kind EXCEPT ![p] = IF r.method = "POST" THEN "consume" ELSE "fetch"]
    /\ req' = [req EXCEPT ![p] = r]
    /\ IF Len(r.key) # KeyLen * 2
       THEN /\ Respond(p, StatusNotFound, Error(StatusNotFound))
            /\ UNCHANGED item
       ELSE /\ item' = [item EXCEPT ![p] = [NoItem EXCEPT !.Key = r.key]]
            /\ pc' = [pc EXCEPT ![p] = "Exists"]
            /\ conn' = [conn EXCEPT ![p].Get = @ + 1]
            /\ UNCHANGED <<code, body>>
    /\ UNCHANGED <<db, ended, quota, CipherKey, issued, main, times, content, tries, ret>>

\* web.Read: exists := item.Exists(conn); GET renders the password prompt,
\* POST goes on to get, which takes the password from the form.
WebReadExists(p) ==
    /\ pc[p] = "Exists"
    /\ IF ~HEXISTS(db[item[p].Key], fieldContent)
       THEN /\ Respond(p, StatusNotFound, Error(StatusNotFound))
            /\ UNCHANGED item
       ELSE IF req[p].method = "POST"
       THEN /\ item' = [item EXCEPT ![p].Password = req[p].password]
            /\ pc' = [pc EXCEPT ![p] = "CheckPassword"]
            /\ UNCHANGED <<code, body, conn>>
       ELSE /\ Respond(p, StatusOK, [tpl |-> "read", msg |-> "", data |-> ""])
            /\ UNCHANGED item
    /\ UNCHANGED <<db, ended, quota, CipherKey, issued, main, kind, req, times, content, tries, ret>>

\* hmac.Equal
EqualAlways(a, b) == TRUE
Equal(a, b) == a = b

\* web.get: ok := item.CheckPassword(c), which hashes the password unless a
\* hash is already there and compares it with HGET key password.
CheckPassword(p) ==
    /\ pc[p] = "CheckPassword"
    /\ LET k == item[p].Key
           hp == IF item[p].hPassword = ""
                 THEN hashPassword(item[p].Password, k)
                 ELSE item[p].hPassword
       IN  /\ item' = [item EXCEPT ![p].hPassword = hp]
           /\ IF ~HEXISTS(db[k], fieldPassword)
              THEN Respond(p, StatusInternalServerError, Error(StatusInternalServerError))
              ELSE IF ~Equal(hp, db[k].password)
              THEN Respond(p, StatusBadRequest,
                           [tpl |-> "read", msg |-> "Failed password", data |-> ""])
              ELSE /\ pc' = [pc EXCEPT ![p] = "Read"]
                   /\ UNCHANGED <<code, body, conn>>
    /\ UNCHANGED <<db, ended, quota, CipherKey, issued, main, kind, req, times, content, tries, ret>>

\* A direct call of Item.Read on an Item with Key and Password set.
CallRead(p, k, password) ==
    /\ Idle(p)
    /\ kind' = [kind EXCEPT ![p] = "read"]
    /\ item' = [item EXCEPT ![p] = [NoItem EXCEPT !.Key = k, !.Password = password]]
    /\ pc' = [pc EXCEPT ![p] = "Read"]
    /\ UNCHANGED <<db, ended, quota, CipherKey, issued, main, req, times, content, tries, ret, code, body, conn>>

\* ------------------------------------------------------------- the store
\* The key's TTL elapses: Redis removes the key.
Expire(k) ==
    /\ db[k].ttl > 0
    /\ db' = [db EXCEPT ![k] = NoHash]
    /\ ended' = [ended EXCEPT ![k] = TRUE]
    /\ UNCHANGED <<quota, CipherKey, issued, main, kind, req, pc, item, times, content, tries, ret, code, body, conn>>

\* The pending store command of a process, if any.
Command(p) ==
    CASE pc[p] \in {"Exists", "ReadExists", "GenerateKey"} -> "HEXISTS"
      [] pc[p] \in {"CheckPassword", "ReadContent"} -> "HGET"
      [] pc[p] = "Read" /\ item[p].Key # EmptyString -> "HINCRBY"
      [] pc[p] \in {"ReadRepair", "ReadDelete"} -> "DEL"
      [] pc[p] = "Save" -> "EXEC"
      [] OTHER -> ""

StoreErrorRetried(p) ==
    /\ Command(p) # ""
    /\ \E applied \in BOOLEAN :
         LET k == item[p].Key IN
         /\ applied => Command(p) \in {"HINCRBY", "DEL", "EXEC"}
         /\ db' = IF ~applied THEN db
                  ELSE CASE Command(p) = "HINCRBY" -> [db EXCEPT ![k] = HINCRBY(@)]
                         [] Command(p) = "DEL" -> [db EXCEPT ![k] = DEL(@)]
                         [] Command(p) = "EXEC" -> [db EXCEPT ![k] = Exec(@, item[p])]
         /\ issued' = [issued EXCEPT
                         ![p].HINCRBY = IF Command(p) = "HINCRBY" THEN @ + 1 ELSE @,
                         ![p].EXEC = IF Command(p) = "EXEC" THEN @ + 1 ELSE @]
         /\ quota' = IF applied /\ Command(p) = "EXEC"
                     THEN [quota EXCEPT ![k] = item[p].Times] ELSE quota
         /\ ended' = IF applied /\ Command(p) = "EXEC" THEN [ended EXCEPT ![k] = FALSE]
                     ELSE IF applied /\ pc[p] = "ReadDelete" THEN [ended EXCEPT ![k] = TRUE]
                     ELSE ended
    /\ UNCHANGED <<CipherKey, main, kind, req, pc, item, times, content, tries, ret, code, body, conn>>

\* c.Do returns an error (connection lost, timeout).  A command that writes
\* may or may not have been carried out by the server.  Item.Read and
\* Item.Save return the error; every handler answers it with 500.
StoreError(p) ==
    /\ Command(p) # ""
    /\ \E applied \in BOOLEAN :
         LET k == item[p].Key IN
         /\ applied => Command(p) \in {"HINCRBY", "DEL", "EXEC"}
         /\ db' = IF ~applied THEN db
                  ELSE CASE Command(p) = "HINCRBY" -> [db EXCEPT ![k] = HINCRBY(@)]
                         [] Command(p) = "DEL" -> [db EXCEPT ![k] = DEL(@)]
                         [] Command(p) = "EXEC" -> [db EXCEPT ![k] = Exec(@, item[p])]
         /\ UNCHANGED <<CipherKey, main>>
         /\ issued' = [issued EXCEPT
                         ![p].HINCRBY = IF Command(p) = "HINCRBY" THEN @ + 1 ELSE @,
                         ![p].EXEC = IF Command(p) = "EXEC" THEN @ + 1 ELSE @]
         /\ quota' = IF applied /\ Command(p) = "EXEC"
                     THEN [quota EXCEPT ![k] = item[p].Times] ELSE quota
         /\ ended' = IF applied /\ Command(p) = "EXEC" THEN [ended EXCEPT ![k] = FALSE]
                     ELSE IF applied /\ pc[p] = "ReadDelete" THEN [ended EXCEPT ![k] = TRUE]
                     ELSE ended
    /\ ret' = [ret EXCEPT ![p] =
                 IF pc[p] \in {"Exists", "CheckPassword"} THEN @
                 ELSE [returned |-> TRUE, ok |-> FALSE, err |-> "store error"]]
    /\ IF kind[p] = "read"
       THEN pc' = [pc EXCEPT ![p] = "done"] /\ UNCHANGED <<code, body, conn>>
       ELSE Respond(p, StatusInternalServerError, Error(StatusInternalServerError))
    /\ UNCHANGED <<kind, req, item, times, content, tries>>

\* ------------------------------------------------ the life of one record
\* One record saved under TheKey with password "abc" and Times = T.  Fetch
\* and consume requests and direct Item.Read calls arrive for it, with the
\* right or a wrong password; its TTL may elapse and store commands may fail.
Start ==
    /\ kind = [p \in Procs |-> "idle"]
    /\ pc = [p \in Procs |-> "idle"]
    /\ req = [p \in Procs |-> NoRequest]
    /\ item = [p \in Procs |-> NoItem]
    /\ times = [p \in Procs |-> 0]
    /\ content = [p \in Procs |-> ""]
    /\ tries = [p \in Procs |-> 0]
    /\ ret = [p \in Procs |-> NoRet]
    /\ code = [p \in Procs |-> 0]
    /\ body = [p \in Procs |-> NoBody]
    /\ issued = [p \in Procs |-> NoneIssued]
    /\ conn = [p \in Procs |-> NoConn]
    /\ main = Serving

InitLife ==
    /\ \E T \in 1..MaxTimes :
         db = [k \in Keys |-> IF k = TheKey
                              THEN Saved(TheKey, "secret", "abc", T, TestTTL)
                              ELSE NoHash]
    /\ quota = [k \in Keys |-> IF k = TheKey THEN db[k].times ELSE 0]
    /\ CipherKey = ServiceKey
    /\ ended = [k \in Keys |-> FALSE]
    /\ Start

ReadRequests ==
    {[NoRequest EXCEPT !.method = "GET", !.key = TheKey]}
        \cup {[NoRequest EXCEPT !.method = "POST", !.key = TheKey, !.password = w] :
                 w \in {"abc", "bad"}}

NextLife ==
    \/ \E p \in Clients, r \in ReadRequests : WebRead(p, r)
    \/ \E p \in Clients : CallRead(p, TheKey, "abc")
    \/ \E p \in Procs : WebReadExists(p)
    \/ \E p \in Procs : CheckPassword(p)
    \/ \E p \in Procs : ItemRead(p)
    \/ \E p \in Procs : StoreError(p)
    \/ \E k \in Keys : Expire(k)

SpecLife == InitLife /\ [][NextLife]_vars

\* --------------------------------------------- claims on concurrent reads
Finished == {p \in Procs : pc[p] = "done"}
AllDone == Finished = Procs
\* the completed calls of Item.Read on TheKey
Readers == {p \in Finished : ret[p].returned /\ item[p].Key = TheKey}
Delivered == {p \in Readers : ret[p].ok}
Exists(k) == HEXISTS(db[k], fieldContent)

\* C2: with N >= T readers all run to completion (no expiry, no store
\* failure), exactly T of them return delivered = true.
C2_ExactlyTDelivered ==
    (AllDone /\ Cardinality(Readers) >= quota[TheKey])
        => Cardinality(Delivered) = quota[TheKey]

\* C3: with N >= T readers (no expiry), exactly T obtain a non-negative
\* HINCRBY reply, exactly one of them obtains 0 and delivers, and no step but
\* that reader's final DEL removes the record.
NonNegative == {p \in Readers : times[p] >= 0}
Zero == {p \in Readers : times[p] = 0}
C3_AtQuiescence ==
    (AllDone /\ Cardinality(Readers) >= quota[TheKey])
        => /\ Cardinality(NonNegative) = quota[TheKey]
           /\ Cardinality(Zero) = 1
           /\ \A p \in Zero : ret[p].ok
C3_OnlyZeroDeletes ==
    \A k \in Keys :
        (Exists(k) /\ ~Exists(k)')
            => \E p \in Procs : /\ pc[p] = "ReadDelete" /\ pc'[p] = "done"
                                /\ times[p] = 0 /\ item[p].Key = k
C3_QuotaArbiter == [](C3_AtQuiescence) /\ [][C3_OnlyZeroDeletes]_vars
C3_Witness ==
    /\ AllDone
    /\ quota[TheKey] = MaxTimes
    /\ Cardinality(Readers) > quota[TheKey]
    /\ \E p \in Readers : times[p] < 0
    /\ \E p \in Readers : times[p] = 0 /\ ret[p].ok

\* C4: with N >= T readers, under fair scheduling and no store failure, the
\* readers all finish and from then on exists(key) is false.
C4_EventuallyDeleted ==
    (Cardinality(Procs) >= quota[TheKey]) => <>[](AllDone /\ ~Exists(TheKey))
C4_Witness ==
    /\ AllDone
    /\ ~Exists(TheKey)
    /\ \E p \in Readers : times[p] = 0 /\ ret[p].ok
    /\ \E p \in Readers : times[p] > 0

\* ---------------------------------------- claims on the life of a record
Consumers == {p \in Finished : kind[p] = "consume"}
\* the consume requests whose Item.Read returned delivered = false
Refused == {p \in Consumers : ret[p].returned /\ ~ret[p].ok}
ShowsContent(p) == body[p].tpl = "content"

\* C1 as stated: at most T calls of Item.Read deliver over the life of the
\* record, and a consume request whose Read returned delivered = false is
\* answered 404 without plaintext.
C1_Original ==
    /\ Cardinality(Delivered) <= quota[TheKey]
    /\ \A p \in Refused : code[p] = StatusNotFound /\ ~ShowsContent(p)

\* C1 as amended: at most T calls deliver, and a consume request whose Read
\* returned delivered = false shows no plaintext and is answered 404 when
\* Read returned no error, 500 when it returned one.
C1_QuotaNeverExceeded ==
    /\ Cardinality(Delivered) <= quota[TheKey]
    /\ \A p \in Refused :
         /\ ~ShowsContent(p)
         /\ code[p] = IF ret[p].err = "" THEN StatusNotFound
                      ELSE StatusInternalServerError
    /\ \A p \in Consumers : ShowsContent(p) => p \in Delivered /\ code[p] = StatusOK
C1_Witness ==
    /\ Cardinality(Delivered) = quota[TheKey]
    /\ \E p \in Refused : code[p] = StatusNotFound /\ times[p] < 0
    /\ \E p \in Consumers : p \in Delivered

\* C5: once the record has ended (deleted by the read that took the counter
\* to zero, or expired), a read whose content fetch comes after that returns
\* without delivering.
C5_Step ==
    \A p \in Procs :
        (pc[p] = "ReadContent" /\ pc'[p] # pc[p] /\ ended[item[p].Key])
            => (pc'[p] = "done" /\ ret'[p].returned /\ ~ret'[p].ok)
C5_NoReadAfterEnd == [][C5_Step]_vars
C5_Witness ==
    /\ ended[TheKey]
    /\ \E p \in Readers : times[p] = 0 /\ ret[p].ok
    /\ \E p \in Readers : times[p] > 0 /\ ret[p].err = "redigo: nil returned"

\* C6: a fetch, and a consume request whose password does not match the
\* stored verifier, change nothing in the store; the mismatch is answered 400
\* with the prompt rendered again.
WrongPassword(p) ==
    /\ HEXISTS(db[item[p].Key], fieldPassword)
    /\ db[item[p].Key].password # hashPassword(req[p].password, item[p].Key)
C6_Step ==
    \A p \in Procs :
        /\ (pc[p] # pc'[p] /\ kind'[p] = "fetch") => db' = db
        /\ (pc[p] # pc'[p] /\ kind'[p] = "consume" /\ pc[p] \in {"idle", "Exists"})
              => db' = db
        /\ (CheckPassword(p) /\ WrongPassword(p))
              => /\ db' = db
                 /\ pc'[p] = "done"
                 /\ code'[p] = StatusBadRequest
                 /\ body'[p] = [tpl |-> "read", msg |-> "Failed password", data |-> ""]
C6_WrongPasswordFrame == [][C6_Step]_vars
C6_Witness ==
    /\ \E p \in Consumers : code[p] = StatusBadRequest /\ req[p].password = "bad"
    /\ \E p \in Finished : kind[p] = "fetch" /\ code[p] = StatusOK
    /\ db[TheKey] = Saved(TheKey, "secret", "abc", quota[TheKey], TestTTL)

\* ----------------------------------------------------------- db.New
DigitValue(c) ==
    CASE c = "0" -> 0 [] c = "1" -> 1 [] c = "2" -> 2 [] c = "3" -> 3 [] c = "4" -> 4
      [] c = "5" -> 5 [] c = "6" -> 6 [] c = "7" -> 7 [] c = "8" -> 8 [] c = "9" -> 9
      [] OTHER -> -1

RECURSIVE ParseDigits(_, _)
ParseDigits(str, acc) ==
    IF str = "" THEN acc
    ELSE IF DigitValue(Head(str)) < 0 THEN -1
    ELSE ParseDigits(Tail(str), 10 * acc + DigitValue(Head(str)))

\* strconv.Atoi: an optional sign and decimal digits, [err, n].
Atoi(str) ==
    LET signed == str # "" /\ Head(str) \in {"+", "-"}
        digits == IF signed THEN Tail(str) ELSE str
        n == IF digits = "" THEN -1 ELSE ParseDigits(digits, 0)
    IN  IF n < 0 THEN [err |-> "invalid syntax", n |-> 0]
        ELSE [err |-> "", n |-> IF signed /\ Head(str) = "-" THEN 0 - n ELSE n]

RECURSIVE Itoa(_)
Itoa(n) ==
    IF n < 10 THEN hextable[n + 1] ELSE Itoa(n \div 10) \o hextable[(n % 10) + 1]

validateRangeFromZero(value, max) ==
    LET a == Atoi(value) IN
    IF a.err # "" THEN [err |-> a.err, n |-> 0]
    ELSE IF a.n < 0 \/ a.n > max THEN [err |-> "out of range", n |-> 0]
    ELSE [err |-> "", n |-> a.n]
validateRange(value, max) ==
    LET a == Atoi(value) IN
    IF a.err # "" THEN [err |-> a.err, n |-> 0]
    ELSE IF a.n < 1 \/ a.n > max THEN [err |-> "out of range", n |-> 0]
    ELSE [err |-> "", n |-> a.n]

\* cfg.Settings and cfg.Secure
SettingsTTL == TestTTL
SettingsTimes == MaxTimes
Secure == FALSE

\* db.New: [err, item] from the POST form.
NewWithoutContentCheck(r, ttl, attempts) ==
    LET t == validateRange(r.ttl, ttl)
        n == validateRange(r.times, attempts)
    IN  IF r.ttl = "" THEN [err |-> "required field ttl", item |-> NoItem]
        ELSE IF t.err # "" THEN [err |-> t.err, item |-> NoItem]
        ELSE IF r.times = "" THEN [err |-> "required field times", item |-> NoItem]
        ELSE IF n.err # "" THEN [err |-> n.err, item |-> NoItem]
        ELSE [err |-> "",
              item |-> [NoItem EXCEPT !.Content = r.content, !.TTL = t.n,
                                      !.Times = n.n, !.Password = r.password]]
New(r, ttl, attempts) ==
    LET t == validateRange(r.ttl, ttl)
        n == validateRange(r.times, attempts)
    IN  IF r.content = "" THEN [err |-> "required field content", item |-> NoItem]
        ELSE IF r.ttl = "" THEN [err |-> "required field ttl", item |-> NoItem]
        ELSE IF t.err # "" THEN [err |-> t.err, item |-> NoItem]
        ELSE IF r.times = "" THEN [err |-> "required field times", item |-> NoItem]
        ELSE IF n.err # "" THEN [err |-> n.err, item |-> NoItem]
        ELSE [err |-> "",
              item |-> [NoItem EXCEPT !.Content = r.content, !.TTL = t.n,
                                      !.Times = n.n, !.Password = r.password]]

GetURLWithoutHint(it, host, secure) ==
    [Scheme |-> "http", Host |-> host, Path |-> it.Key]

\* r.URL.Scheme is blank, so the scheme comes from the settings.
GetURL(it, host, secure) ==
    [Scheme |-> IF secure THEN "https" ELSE "http", Host |-> host, Path |-> it.Key]

\* url.URL.String() for a URL of scheme, host and path whose characters need
\* no escaping: a path that does not begin with a slash gets one after a host.
URLString(u) ==
    (IF u.Scheme # "" THEN u.Scheme \o ":" ELSE "")
    \o (IF u.Scheme # "" \/ u.Host # ""
        THEN (IF u.Host # "" \/ u.Path # "" THEN "//" ELSE "") \o u.Host
        ELSE "")
    \o (IF u.Path # "" /\ SubSeq(u.Path, 1, 1) # "/" /\ u.Host # "" THEN "/" ELSE "")
    \o u.Path

\* ------------------------------------------------- web.create, Item.Save
\* web.create: a form that db.New rejects is answered 400 before a
\* connection is borrowed; otherwise Save starts with generateKey.
Create(p, r) ==
    /\ Idle(p)
    /\ kind' = [kind EXCEPT ![p] = "create"]
    /\ req' = [req EXCEPT ![p] = r]
    /\ LET n == New(r, SettingsTTL, SettingsTimes) IN
       IF n.err # ""
       THEN /\ Respond(p, StatusBadRequest, Error(StatusBadRequest))
            /\ UNCHANGED item
       ELSE /\ item' = [item EXCEPT ![p] = n.item]
            /\ pc' = [pc EXCEPT ![p] = "GenerateKey"]
            /\ conn' = [conn EXCEPT ![p].Get = @ + 1]
            /\ UNCHANGED <<code, body>>
    /\ UNCHANGED <<db, ended, quota, CipherKey, issued, main, times, content, tries, ret>>

\* Item.Save returns e: to web.create, which answers 500 on an error and
\* otherwise renders the item's URL, or to a caller that called it directly.
SaveReturn(p, it, e) ==
    /\ item' = [item EXCEPT ![p] = it]
    /\ ret' = [ret EXCEPT ![p] = [returned |-> TRUE, ok |-> e = "", err |-> e]]
    /\ IF kind[p] = "save"
       THEN pc' = [pc EXCEPT ![p] = "done"] /\ UNCHANGED <<code, body, conn>>
       ELSE IF e # ""
       THEN Respond(p, StatusInternalServerError, Error(StatusInternalServerError))
       ELSE Respond(p, StatusOK,
                    [tpl |-> "result", msg |-> "",
                     data |-> URLString(GetURL(it, req[p].host, Secure))])

\* getKey's result for every buffer rand.Read may fill in, computed once.
KeyOf == [b \in RandBuffers |-> getKey(b)]

ErrCollision ==
    "can not get an unique key [" \o Itoa(KeyLen) \o "] after " \o Itoa(maxCollisions)
        \o " attemps"

\* generateKey's answer to a candidate whose probe replied `exists`, after
\* i earlier candidates collided: "key", "retry" or "collision".
ProbeIgnored(exists, i) == "key"
ProbeOneMore(exists, i) ==
    IF ~exists THEN "key"
    ELSE IF i < maxCollisions THEN "retry"
    ELSE "collision"
Probe(exists, i) ==
    IF ~exists THEN "key"
    ELSE IF i + 1 < maxCollisions THEN "retry"
    ELSE "collision"

\* One turn of generateKey's loop: getKey draws the buffer b, HEXISTS probes
\* the candidate.  With a free candidate Save goes on to hashPassword and
\* encrypt (iv drawn by rand) and queues MULTI .. EXPIRE.
GenerateKey(p, b, iv) ==
    /\ pc[p] = "GenerateKey"
    /\ LET key == KeyOf[b]
           answer == Probe(HEXISTS(db[key], fieldContent), tries[p])
           it == [item[p] EXCEPT !.Key = key, !.hPassword = hashPassword(item[p].Password, key)]
           known == {x \in Encrypted : x[1] = it.Password /\ x[2] = it.Content /\ x[3] = iv}
           e == IF it.eContent = "" /\ CipherKey = ServiceKey /\ known # {}
                THEN (CHOOSE x \in known : TRUE)[4]
                ELSE encrypt(it, CipherKey, iv)
       IN  /\ tries' = [tries EXCEPT ![p] = IF answer = "key" THEN @ ELSE @ + 1]
           /\ CASE answer = "collision" ->
                     SaveReturn(p, item[p], ErrCollision)
                [] answer = "retry" ->
                     UNCHANGED <<pc, item, ret, code, body, conn>>
                [] answer = "key" /\ e.err # "" ->
                     SaveReturn(p, it, e.err)
                [] OTHER ->
                     /\ item' = [item EXCEPT ![p] = [it EXCEPT !.eContent = e.eContent]]
                     /\ pc' = [pc EXCEPT ![p] = "Save"]
                     /\ UNCHANGED <<ret, code, body, conn>>
    /\ UNCHANGED <<db, ended, quota, CipherKey, issued, main, kind, req, times, content>>

\* getKey: rand.Read fails.
RandError(p) ==
    /\ pc[p] = "GenerateKey"
    /\ SaveReturn(p, item[p], "rand error")
    /\ UNCHANGED <<db, ended, quota, CipherKey, issued, main, kind, req, times, content, tries>>

\* redis.Bool(v, nil): an integer is true when it is not 0, a bulk string is
\* parsed by strconv.ParseBool, nil is ErrNil, an error reply is that error
\* and any other type has no conversion.
ParseBoolTrue == {"1", "t", "T", "TRUE", "true", "True"}
ParseBoolFalse == {"0", "f", "F", "FALSE", "false", "False"}
Bool(v) ==
    CASE v.type = "int64" -> [ok |-> v.val # 0, err |-> ""]
      [] v.type = "bytes" ->
            IF v.val \in ParseBoolTrue THEN [ok |-> TRUE, err |-> ""]
            ELSE IF v.val \in ParseBoolFalse THEN [ok |-> FALSE, err |-> ""]
            ELSE [ok |-> FALSE, err |-> "strconv.ParseBool: invalid syntax"]
      [] v.type = "nil" -> [ok |-> FALSE, err |-> "redigo: nil returned"]
      [] v.type = "error" -> [ok |-> FALSE, err |-> v.val]
      [] OTHER -> [ok |-> FALSE, err |-> "redigo: unexpected type for Bool"]

\* Item.Save after c.Do("EXEC") returned r without error: the error Save
\* returns, "" for nil.
ExecResultAnyLength(r) ==
    IF r.type # "list" THEN "failed multi read result convertion"
    ELSE IF \E i \in 1..Len(r.val) : Bool(r.val[i]).err # "" \/ ~Bool(r.val[i]).ok
    THEN LET i == CHOOSE i \in 1..Len(r.val) :
                     /\ Bool(r.val[i]).err # "" \/ ~Bool(r.val[i]).ok
                     /\ \A j \in 1..(i - 1) : Bool(r.val[j]).err = "" /\ Bool(r.val[j]).ok
         IN  IF Bool(r.val[i]).err # ""
             THEN "failed operation=" \o Itoa(i - 1) \o " bool convertion"
             ELSE "failed operation=" \o Itoa(i - 1) \o " result"
    ELSE ""

ExecResult(r) ==
    IF r.type # "list" THEN "failed multi read result convertion"
    ELSE IF Len(r.val) # 4 THEN "unexpected multi item result"
    ELSE IF \E i \in 1..4 : Bool(r.val[i]).err # "" \/ ~Bool(r.val[i]).ok
    THEN LET i == CHOOSE i \in 1..4 :
                     /\ Bool(r.val[i]).err # "" \/ ~Bool(r.val[i]).ok
                     /\ \A j \in 1..(i - 1) : Bool(r.val[j]).err = "" /\ Bool(r.val[j]).ok
         IN  IF Bool(r.val[i]).err # ""
             THEN "failed operation=" \o Itoa(i - 1) \o " bool convertion"
             ELSE "failed operation=" \o Itoa(i - 1) \o " result"
    ELSE ""

Int64(n) == [type |-> "int64", val |-> n]
List(l) == [type |-> "list", val |-> l]

\* Save from EXEC on: the store answers r, a list when it carried the queued
\* commands out; Save returns what it makes of r.
SaveGot(p, r) ==
    /\ pc[p] = "Save"
    /\ LET k == item[p].Key
           applied == r.type = "list"
       IN  /\ db' = IF applied THEN [db EXCEPT ![k] = Exec(@, item[p])] ELSE db
           /\ UNCHANGED <<CipherKey, main>>
           /\ issued' = [issued EXCEPT ![p].EXEC = @ + 1]
           /\ quota' = IF applied THEN [quota EXCEPT ![k] = item[p].Times] ELSE quota
           /\ ended' = IF applied THEN [ended EXCEPT ![k] = FALSE] ELSE ended
           /\ SaveReturn(p, item[p], ExecResult(r))
    /\ UNCHANGED <<kind, req, times, content, tries>>

\* Save: EXEC carries out the queued HSET content, HSET password, HSET times
\* and EXPIRE at once and answers with their four integer replies; Save
\* fails unless it gets four true replies.
SaveExec(p) ==
    /\ pc[p] = "Save"
    /\ LET replies == ExecReplies(db[item[p].Key])
       IN  SaveGot(p, List([i \in 1..4 |-> Int64(IF replies[i] THEN 1 ELSE 0)]))

\* The process is free for the next request.
Reset(p) ==
    /\ pc[p] = "done"
    /\ kind' = [kind EXCEPT ![p] = "idle"]
    /\ pc' = [pc EXCEPT ![p] = "idle"]
    /\ req' = [req EXCEPT ![p] = NoRequest]
    /\ item' = [item EXCEPT ![p] = NoItem]
    /\ times' = [times EXCEPT ![p] = 0]
    /\ content' = [content EXCEPT ![p] = ""]
    /\ tries' = [tries EXCEPT ![p] = 0]
    /\ ret' = [ret EXCEPT ![p] = NoRet]
    /\ code' = [code EXCEPT ![p] = 0]
    /\ body' = [body EXCEPT ![p] = NoBody]
    /\ conn' = [conn EXCEPT ![p] = NoConn]
    /\ issued' = [issued EXCEPT ![p] = NoneIssued]
    /\ UNCHANGED <<db, ended, quota, CipherKey, main>>

CreateForms ==
    {[NoRequest EXCEPT !.method = "POST", !.content = "secret", !.ttl = Itoa(TestTTL),
                       !.times = Itoa(n), !.password = "abc", !.host = "localhost"] :
        n \in 1..MaxTimes}

\* Forms that db.New rejects: no content, a ttl of zero, times that is no number.
BadForms ==
    LET f == [NoRequest EXCEPT !.method = "POST", !.content = "secret", !.ttl = Itoa(TestTTL),
                               !.times = "1", !.password = "abc", !.host = "localhost"]
    IN  {[f EXCEPT !.content = ""], [f EXCEPT !.ttl = "0"], [f EXCEPT !.times = "x"]}

\* ---------------------------------------------------- concurrent saves
\* Create requests arrive on an empty store, together with consume requests
\* and direct reads on the keys; TTLs elapse and store commands fail.
\* The forms of the concurrent creates: a record that one read uses up.
SaveForms == {f \in CreateForms : f.times = Itoa(1)}

InitSave ==
    /\ db = [k \in Keys |-> NoHash]
    /\ quota = [k \in Keys |-> 0]
    /\ CipherKey = ServiceKey
    /\ ended = [k \in Keys |-> FALSE]
    /\ Start

NextSave ==
    \/ \E p \in Clients, r \in SaveForms : Create(p, r)
    \/ \E p \in Procs, b \in RandBuffers, iv \in IVPool : GenerateKey(p, b, iv)
    \/ \E p \in Procs : SaveExec(p)
    \/ \E p \in Clients, k \in Keys : CallRead(p, k, "abc")
    \/ \E p \in Procs : ItemRead(p)
    \/ \E p \in Procs : StoreError(p)
    \/ \E k \in Keys : Expire(k)

SpecSave == InitSave /\ [][NextSave]_vars

\* ---------------------------------------------------- sequential saves
\* One create request at a time: the next starts only when the one before
\* it has been answered.  Records expire, store commands fail, rand.Read fails.
NoneInFlight == \A q \in Procs : Idle(q)

NextSeq ==
    \/ \E p \in Procs, r \in CreateForms \cup BadForms : NoneInFlight /\ Create(p, r)
    \/ \E p \in Procs, b \in RandBuffers, iv \in IVPool : GenerateKey(p, b, iv)
    \/ \E p \in Procs : RandError(p)
    \/ \E p \in Procs : SaveExec(p)
    \/ \E p \in Procs : StoreError(p)
    \/ \E p \in Procs : Reset(p)
    \/ \E k \in Keys : Expire(k)

SpecSeq == InitSave /\ [][NextSeq]_vars

\* ------------------------------------------------------ claims on Save
\* C7: in every reachable state, under any interleaving of saves and reads,
\* a key whose content field is present also has its password and times
\* fields and an expiry: no request observes a partly written record.
C7_BatchAllOrNothing ==
    \A k \in Keys :
        HEXISTS(db[k], fieldContent) =>
            /\ HEXISTS(db[k], fieldPassword)
            /\ HEXISTS(db[k], fieldTimes)
            /\ db[k].ttl > 0

\* A Save has written a record and a reader is about to fetch its content.
C7_Witness ==
    \E p, q \in Procs :
        /\ kind[q] = "create" /\ pc[q] = "done" /\ ret[q].ok
        /\ pc[p] = "ReadContent" /\ item[p].Key = item[q].Key
        /\ HEXISTS(db[item[q].Key], fieldContent)

\* The step with which the Save of p has its batch carried out.
SaveWrites(p) ==
    /\ pc[p] = "Save"
    /\ pc'[p] = "done"
    /\ db'[item[p].Key] = Exec(db[item[p].Key], item[p])

\* C8: for any two Save calls running concurrently, no Save writes its batch
\* under a key that holds a live record: a live record is never overwritten.
C8_LiveNeverOverwritten ==
    [][\A p \in Procs : SaveWrites(p) => ~HEXISTS(db[item[p].Key], fieldContent)]_vars

Hex == {hextable[i] : i \in 1..16}

IsLowerHex(str) == \A i \in 1..Len(str) : SubSeq(str, i, i) \in Hex

\* The step with which generateKey returns a key to the Save of p.
KeyReturned(p) == pc[p] = "GenerateKey" /\ pc'[p] = "Save"

C9_Step ==
    \A p \in Procs :
        /\ KeyReturned(p) =>
              /\ ~HEXISTS(db[item'[p].Key], fieldContent)
              /\ Len(item'[p].Key) = 128
              /\ IsLowerHex(item'[p].Key)
        /\ SaveWrites(p) => ~HEXISTS(db[item[p].Key], fieldContent)

\* C9: across sequential Save calls, a key is returned only when its probe
\* found no live record under it, no live record stands under it when the
\* batch is written, and every key is a 128-character lowercase hex string.
C9_SequentialKeysDistinct == [][C9_Step]_vars

\* A Save met a collision and then saved under a key of its own while the
\* record it collided with is still live.
C9_Witness ==
    \E p \in Procs :
        /\ kind[p] = "create" /\ pc[p] = "done" /\ ret[p].ok /\ tries[p] > 0
        /\ HEXISTS(db[item[p].Key], fieldContent)
        /\ \E k \in Keys \ {item[p].Key} : HEXISTS(db[k], fieldContent)

C10_Bounded ==
    \A p \in Procs :
        /\ tries[p] <= 16
        /\ pc[p] = "GenerateKey" => tries[p] < 16
        /\ ret[p].err = ErrCollision <=> tries[p] = 16

C10_Step ==
    \A p \in Procs :
        (pc[p] = "GenerateKey" /\ (pc'[p] # "GenerateKey" \/ tries'[p] # tries[p])) =>
            \/ /\ KeyReturned(p)
               /\ tries'[p] = tries[p]
               /\ ~HEXISTS(db[item'[p].Key], fieldContent)
            \/ /\ tries'[p] = tries[p] + 1
               /\ \E k \in Keys : HEXISTS(db[k], fieldContent)
               /\ pc'[p] = "done" <=> tries'[p] = 16
               /\ pc'[p] = "done" => ret'[p] = [returned |-> TRUE, ok |-> FALSE, err |-> ErrCollision]
            \/ /\ pc'[p] = "done"
               /\ tries'[p] = tries[p]
               /\ ret'[p].returned /\ ~ret'[p].ok
               /\ ret'[p].err \in {"store error", "rand error"}

\* C10: generateKey makes at most 16 existence probes; it returns the first
\* candidate whose probe reports absent, fails with the collision error if
\* and only if 16 probes reported present, and returns at once with the
\* error when a probe or the random source fails.
C10_GenerateKeyTerminates == [](C10_Bounded) /\ [][C10_Step]_vars

\* Sixteen candidates in a row were taken: the collision error.
C10_Witness ==
    \E p \in Procs : pc[p] = "done" /\ tries[p] = 16 /\ ret[p].err = ErrCollision

\* ---------------------------------------------------- sequential reads
\* One record saved under TheKey with password "abc" and Times = T is read
\* one call at a time, by Item.Read directly or by a consume request with the
\* right password (db_test.go TestItem_Read, web_test.go TestRead).
Quiet == \A q \in Procs : pc[q] \in {"idle", "done"}

RightPost == [NoRequest EXCEPT !.method = "POST", !.key = TheKey, !.password = "abc"]

NextSeqRead ==
    \/ \E p \in Procs : Quiet /\ CallRead(p, TheKey, "abc")
    \/ \E p \in Procs : Quiet /\ WebRead(p, RightPost)
    \/ \E p \in Procs : WebReadExists(p)
    \/ \E p \in Procs : CheckPassword(p)
    \/ \E p \in Procs : ItemRead(p)

SpecSeqRead == InitLife /\ [][NextSeqRead]_vars

\* The calls completed once this step is taken: the rank of the call that
\* completes with it.
RankAfter == Cardinality({q \in Procs : pc'[q] = "done"})

C11_Step ==
    \A p \in Procs :
        (pc[p] # "done" /\ pc'[p] = "done") =>
            LET k == RankAfter
                T == quota[TheKey]
            IN  IF k <= T
                THEN /\ ret'[p] = [returned |-> TRUE, ok |-> TRUE, err |-> ""]
                     /\ item'[p].Content = "secret"
                     /\ item'[p].Times = T - k
                     /\ HEXISTS(db'[TheKey], fieldContent) <=> k < T
                     /\ kind[p] = "consume" =>
                           /\ code'[p] = StatusOK
                           /\ body'[p] = [tpl |-> "content", msg |-> "", data |-> "secret"]
                ELSE /\ ~ret'[p].ok
                     /\ item'[p].Content = ""
                     /\ body'[p].tpl # "content"
                     /\ db'[TheKey] = NoHash

\* C11: read one call at a time with the right password, the k-th read of a
\* record saved with Times = T delivers the plaintext and Times = T - k for
\* 1 <= k <= T, the record exists after it iff k < T, and every later read
\* delivers nothing.
C11_SequentialReads == [][C11_Step]_vars

\* T reads delivered, the last left no record, and a later read got nothing.
C11_Witness ==
    /\ Quiet
    /\ Cardinality(Delivered) = quota[TheKey]
    /\ \E p \in Delivered : item[p].Times = 0 /\ kind[p] = "consume"
    /\ \E p \in Finished \ Delivered : kind[p] = "read" /\ ret[p].returned
    /\ db[TheKey] = NoHash

\* ------------------------------------------------------- create forms
\* What a client may put into the ttl and times fields: nothing, numbers in
\* and out of range, signs, leading zeros, and text that is no number.
FormNumbers ==
    {"", "0", "1", "+1", "01", "-1", "x", "1x", " 1", "1 ",
     Itoa(MaxTimes), Itoa(MaxTimes + 1), Itoa(TestTTL), Itoa(TestTTL + 1)}

AllForms ==
    {[NoRequest EXCEPT !.method = "POST", !.content = c, !.ttl = t, !.times = n,
                       !.password = w, !.host = "localhost"] :
        c \in {"", "secret"}, t \in FormNumbers, n \in FormNumbers, w \in {"", "abc"}}

\* db.New applied to one form: the first create request of a fresh server.
NextNew == \E p \in Procs, r \in AllForms : (\A q \in Procs : Idle(q)) /\ Create(p, r)

SpecNew == InitSave /\ [][NextNew]_vars

\* The form value str is a decimal numeral of n: n's digits, possibly after
\* a plus sign and leading zeros.
StripSign(str) == IF str # "" /\ Head(str) = "+" THEN Tail(str) ELSE str

RECURSIVE StripZeros(_)
StripZeros(str) ==
    IF Len(str) > 1 /\ Head(str) = "0" THEN StripZeros(Tail(str)) ELSE str

Denotes(str, n) == StripZeros(StripSign(str)) = Itoa(n)

ValidForm(r) ==
    /\ r.content # ""
    /\ \E n \in 1..SettingsTTL : Denotes(r.ttl, n)
    /\ \E n \in 1..SettingsTimes : Denotes(r.times, n)

\* C12: New accepts a form iff content is non-empty, ttl is a decimal integer
\* in [1, maxTTL] and times one in [1, maxTimes]; an accepted form yields an
\* Item with content, ttl, times and password as submitted, a rejected one an
\* error and no Item.
C12_NewValidates ==
    \A p \in Procs :
        kind[p] = "create" =>
            IF ValidForm(req[p])
            THEN /\ pc[p] = "GenerateKey"
                 /\ item[p].Content = req[p].content
                 /\ item[p].Password = req[p].password
                 /\ Denotes(req[p].ttl, item[p].TTL)
                 /\ Denotes(req[p].times, item[p].Times)
                 /\ item[p].Key = "" /\ item[p].eContent = "" /\ item[p].hPassword = ""
            ELSE /\ pc[p] = "done"
                 /\ item[p] = NoItem
                 /\ code[p] = StatusBadRequest

\* A form with a signed, zero-padded ttl and an empty password was accepted.
C12_Witness ==
    \E p \in Procs :
        /\ pc[p] = "GenerateKey"
        /\ req[p].ttl = "+1" /\ req[p].times = "01" /\ req[p].password = ""
        /\ item[p].TTL = 1 /\ item[p].Times = 1

\* The step with which a create request of p arrives.
Arrives(p) == kind[p] = "idle" /\ kind'[p] = "create"

C13_Step ==
    \A p \in Procs :
        (Arrives(p) /\ ~ValidForm(req'[p])) =>
            /\ db' = db
            /\ pc'[p] = "done"
            /\ code'[p] = StatusBadRequest
            /\ body'[p] = Error(StatusBadRequest)
            /\ ret'[p] = NoRet /\ tries'[p] = 0 /\ item'[p] = NoItem

\* C13: a create request that fails validation is answered 400 at once: it
\* never reaches Save, probes no key and writes nothing, the store is as it
\* was.
C13_InvalidCreateFrame == [][C13_Step]_vars

\* A rejected create request, answered while the store holds a record.
C13_Witness ==
    \E p \in Procs :
        /\ kind[p] = "create" /\ pc[p] = "done" /\ code[p] = StatusBadRequest
        /\ req[p].content = ""
        /\ \E k \in Keys : HEXISTS(db[k], fieldContent)

\* --------------------------------------------------------- key paths
\* strings.Trim(str, "/ ")
Cutset == {"/", " "}

RECURSIVE TrimLeft(_)
TrimLeft(str) == IF str # "" /\ Head(str) \in Cutset THEN TrimLeft(Tail(str)) ELSE str

RECURSIVE TrimRight(_)
TrimRight(str) ==
    IF str # "" /\ SubSeq(str, Len(str), Len(str)) \in Cutset
    THEN TrimRight(SubSeq(str, 1, Len(str) - 1))
    ELSE str

Trim(str) == TrimRight(TrimLeft(str))

\* Request URIs that main hands to web.Read: the key, the key between
\* slashes, keys one character short and long, a key with a query, a word.
RequestURIs ==
    {"/" \o TheKey, "/" \o TheKey \o "/", "/" \o SubSeq(TheKey, 1, 2 * KeyLen - 1),
     "/" \o TheKey \o "0", "/" \o TheKey \o "?a=1", "/abc", "//"}

PathRequests ==
    {[NoRequest EXCEPT !.method = m, !.key = Trim(u),
                       !.password = IF m = "POST" THEN "abc" ELSE ""] :
        m \in {"GET", "POST"}, u \in RequestURIs}

\* Requests for these paths arrive one at a time for the record under TheKey;
\* its TTL may elapse and store commands may fail.
NextPath ==
    \/ \E p \in Clients, r \in PathRequests : Quiet /\ WebRead(p, r)
    \/ \E p \in Procs : WebReadExists(p)
    \/ \E p \in Procs : CheckPassword(p)
    \/ \E p \in Procs : ItemRead(p)
    \/ \E p \in Procs : StoreError(p)
    \/ \E k \in Keys : Expire(k)

SpecPath == InitLife /\ [][NextPath]_vars

C14_Step ==
    \A p \in Procs :
        (kind[p] = "idle" /\ kind'[p] \in {"fetch", "consume"} /\ Len(req'[p].key) # 128) =>
            /\ db' = db
            /\ pc'[p] = "done"
            /\ code'[p] = StatusNotFound
            /\ body'[p] = Error(StatusNotFound)
            /\ item'[p] = NoItem /\ ret'[p] = NoRet

\* C14: a GET or POST for a key whose length is not 128 is answered 404 at
\* once: no store command is issued for it and the store is as it was.
C14_WrongLengthFrame == [][C14_Step]_vars

\* A GET and a POST for keys one character short and long were answered 404
\* while the record under the right key is still there.
C14_Witness ==
    /\ \E p \in Procs : /\ kind[p] = "fetch" /\ code[p] = StatusNotFound
                        /\ Len(req[p].key) = 127
    /\ \E p \in Procs : /\ kind[p] = "consume" /\ code[p] = StatusNotFound
                        /\ Len(req[p].key) = 129
    /\ HEXISTS(db[TheKey], fieldContent)

\* ------------------------------------------------------------ the codec
\* Item.encrypt and Item.decrypt called directly, as Save and Read call
\* them, under a service key of 32 bytes: plaintexts up to three blocks,
\* passwords from none to more than 32 bytes, two IVs.
ServiceKeys == {ServiceKey, "ZYXWVUTSRQPONMLKJIHGFEDCBA987654"}

PlainTexts ==
    {"a", "secret", "0123456789abcdef", "0123456789abcdefg",
     "The quick brown fox jumps over the lazy dog"}

CodecPasswords ==
    {"", "abc", "ABCDEFGHIJKLMNOPQRSTUVWXYZabcdef", "ABCDEFGHIJKLMNOPQRSTUVWXYZabcdefghij"}

IVs == IVPool \cup {[i \in 1..BlockSize |-> (251 - 13 * i) % 256]}

InitCodec ==
    /\ db = [k \in Keys |-> NoHash]
    /\ quota = [k \in Keys |-> 0]
    /\ ended = [k \in Keys |-> FALSE]
    /\ CipherKey \in ServiceKeys
    /\ Start

\* item := &Item{Content: plainText, Password: password}; item.encrypt(skey)
CallEncrypt(p, plainText, password, iv) ==
    /\ \A q \in Procs : Idle(q)
    /\ kind' = [kind EXCEPT ![p] = "codec"]
    /\ req' = [req EXCEPT ![p] = [NoRequest EXCEPT !.content = plainText, !.password = password]]
    /\ LET it == [NoItem EXCEPT !.Content = plainText, !.Password = password]
           e == encrypt(it, CipherKey, iv)
       IN  /\ item' = [item EXCEPT ![p] = [it EXCEPT !.eContent = e.eContent]]
           /\ ret' = [ret EXCEPT ![p] = [returned |-> TRUE, ok |-> e.err = "", err |-> e.err]]
           /\ pc' = [pc EXCEPT ![p] = IF e.err = "" THEN "Decrypt" ELSE "done"]
    /\ UNCHANGED <<db, ended, quota, CipherKey, issued, main, times, content, tries, code, body, conn>>

\* item := &Item{Password: password, eContent: eContent}; item.decrypt(skey)
CallDecrypt(p) ==
    /\ pc[p] = "Decrypt"
    /\ LET it == [NoItem EXCEPT !.Password = item[p].Password, !.eContent = item[p].eContent]
           d == decrypt(it, CipherKey)
       IN  /\ item' = [item EXCEPT ![p] = [it EXCEPT !.Content = d.Content]]
           /\ ret' = [ret EXCEPT ![p] = [returned |-> TRUE, ok |-> d.err = "", err |-> d.err]]
    /\ pc' = [pc EXCEPT ![p] = "done"]
    /\ UNCHANGED <<db, ended, quota, CipherKey, issued, main, kind, req, times, content, tries, code, body, conn>>

NextCodec ==
    \/ \E p \in Procs, plainText \in PlainTexts, password \in CodecPasswords, iv \in IVs :
          CallEncrypt(p, plainText, password, iv)
    \/ \E p \in Procs : CallDecrypt(p)

SpecCodec == InitCodec /\ [][NextCodec]_vars

\* C15: for a non-empty plaintext, a 32-byte service key and any password,
\* the empty one included, encrypt succeeds and decrypt of its result under
\* the same key and password returns exactly the plaintext, whatever the IV.
C15_RoundTrip ==
    \A p \in Procs :
        kind[p] = "codec" =>
            /\ ret[p].ok
            /\ pc[p] = "Decrypt" =>
                  /\ Len(item[p].eContent) = 2 * (16 + Len(req[p].content))
                  /\ item[p].Content = req[p].content
            /\ pc[p] = "done" =>
                  /\ item[p].Content = req[p].content
                  /\ item[p].Password = req[p].password

\* A plaintext of more than two blocks under a password of more than 32
\* bytes came back from decrypt.
C15_Witness ==
    \E p \in Procs :
        /\ kind[p] = "codec" /\ pc[p] = "done" /\ ret[p].ok
        /\ Len(req[p].content) > 32 /\ Len(req[p].password) > 32
        /\ item[p].Content = req[p].content
        /\ item[p].eContent # ""

\* ------------------------------------------------------ password check
\* One record saved under TheKey for one read, with any of these passwords;
\* consume requests with any of them arrive together, each with a fresh Item.
CheckPasswords == {"", "abc", "bad", "ab", "abcd"}

InitCheck ==
    /\ \E right \in CheckPasswords :
         db = [k \in Keys |-> IF k = TheKey
                              THEN Saved(TheKey, "secret", right, 1, TestTTL)
                              ELSE NoHash]
    /\ quota = [k \in Keys |-> IF k = TheKey THEN db[k].times ELSE 0]
    /\ CipherKey = ServiceKey
    /\ ended = [k \in Keys |-> FALSE]
    /\ Start

CheckRequests ==
    {[NoRequest EXCEPT !.method = "POST", !.key = TheKey, !.password = w] :
        w \in CheckPasswords}

NextCheck ==
    \/ \E p \in Clients, r \in CheckRequests : WebRead(p, r)
    \/ \E p \in Procs : WebReadExists(p)
    \/ \E p \in Procs : CheckPassword(p)
    \/ \E p \in Procs : ItemRead(p)

SpecCheck == InitCheck /\ [][NextCheck]_vars

C16_Step ==
    \A p \in Procs, right \in CheckPasswords :
        LET k == item[p].Key IN
        (/\ pc[p] = "CheckPassword" /\ pc'[p] # "CheckPassword"
         /\ HEXISTS(db[k], fieldPassword)
         /\ db[k].password = hashPassword(right, k)) =>
            /\ pc'[p] = "Read" <=> req[p].password = right
            /\ pc'[p] # "Read" => (pc'[p] = "done" /\ code'[p] = StatusBadRequest)

\* C16: for a record saved with password right under key K, the check by a
\* fresh Item for K passes iff the candidate password equals right, the empty
\* password included on either side.
C16_CheckPassword == [][C16_Step]_vars

\* The record has the empty password: a request with a password was refused
\* and one with the empty password was served.
C16_Witness ==
    /\ db[TheKey].password = hashPassword("", TheKey) \/ db[TheKey] = NoHash
    /\ \E p \in Procs : kind[p] = "consume" /\ code[p] = StatusBadRequest /\ req[p].password = "abc"
    /\ \E p \in Procs : kind[p] = "consume" /\ code[p] = StatusOK /\ req[p].password = ""

\* ------------------------------------------------------- key derivation
\* Service keys of 32, 16, 5 and 0 bytes; passwords shorter than, as long as
\* and longer than each of them.
DerivationKeys == ServiceKeys \cup {"0123456789abcdef", "short", ""}
DerivationPasswords == CodecPasswords \cup {"pass", "passw", "password"}

InitKey ==
    /\ db = [k \in Keys |-> NoHash]
    /\ quota = [k \in Keys |-> 0]
    /\ ended = [k \in Keys |-> FALSE]
    /\ CipherKey \in DerivationKeys
    /\ Start

\* item := &Item{Password: password}; k := item.cipherKey(skey)
CallCipherKey(p, password) ==
    /\ Idle(p)
    /\ kind' = [kind EXCEPT ![p] = "cipherKey"]
    /\ req' = [req EXCEPT ![p] = [NoRequest EXCEPT !.password = password]]
    /\ item' = [item EXCEPT ![p] = [NoItem EXCEPT !.Password = password]]
    /\ ret' = [ret EXCEPT ![p] = [returned |-> TRUE, ok |-> TRUE, err |-> "",
                                  k |-> cipherKey(password, CipherKey)]]
    /\ pc' = [pc EXCEPT ![p] = "done"]
    /\ UNCHANGED <<db, ended, quota, CipherKey, issued, main, times, content, tries, code, body, conn>>

NextKey == \E p \in Procs, password \in DerivationPasswords : CallCipherKey(p, password)

SpecKey == InitKey /\ [][NextKey]_vars

ByteAt(str, i) == SubSeq(str, i, i)

C17_Derived ==
    \A p \in Procs :
        kind[p] = "cipherKey" =>
            LET w == item[p].Password
                k == ret[p].k
            IN  /\ w = EmptyString => k = CipherKey
                /\ Len(k) = Len(CipherKey)
                /\ \A i \in 1..Len(k) :
                      ByteAt(k, i) = IF i <= Len(w) THEN ByteAt(w, i) ELSE ByteAt(CipherKey, i)

\* C17: with an empty password the derived key is the service key; otherwise
\* it is as long as the service key, its byte i is password byte i while the
\* password lasts and service-key byte i after that, password bytes beyond
\* the key length being ignored; the service key is never modified.
C17_KeyDerivation == [][CipherKey' = CipherKey /\ C17_Derived']_vars

\* Keys were derived from a password shorter than the service key, from one
\* longer than it, and from the empty password.
C17_Witness ==
    /\ Len(CipherKey) = 32
    /\ \E p \in Procs : kind[p] = "cipherKey" /\ item[p].Password = "abc"
                        /\ ret[p].k = "abc" \o SubSeq(CipherKey, 4, 32)
    /\ \E p \in Procs : kind[p] = "cipherKey" /\ Len(item[p].Password) = 36
                        /\ ret[p].k = SubSeq(item[p].Password, 1, 32)
    /\ \E p \in Procs : kind[p] = "cipherKey" /\ item[p].Password = EmptyString
                        /\ ret[p].k = CipherKey

\* --------------------------------------------- saves under any service key
\* The server runs with a service key of 32, 16, 5 or 0 bytes (the
\* configuration accepts any hex string).  Create requests and direct calls
\* of Save and encrypt come one at a time.
AnyKeys == {ServiceKey, "0123456789abcdef", "short", ""}

InitAnyKey ==
    /\ db = [k \in Keys |-> NoHash]
    /\ quota = [k \in Keys |-> 0]
    /\ ended = [k \in Keys |-> FALSE]
    /\ CipherKey \in AnyKeys
    /\ Start

\* item := &Item{Content: plainText, TTL: 60, Times: 1, Password: password}
\* err := item.Save(conn, skey)
CallSave(p, plainText, password) ==
    /\ Idle(p)
    /\ kind' = [kind EXCEPT ![p] = "save"]
    /\ req' = [req EXCEPT ![p] = [NoRequest EXCEPT !.content = plainText, !.password = password]]
    /\ item' = [item EXCEPT ![p] = [NoItem EXCEPT !.Content = plainText, !.Password = password,
                                                  !.TTL = TestTTL, !.Times = 1]]
    /\ pc' = [pc EXCEPT ![p] = "GenerateKey"]
    /\ UNCHANGED <<db, ended, quota, CipherKey, issued, main, times, content, tries, ret, code, body, conn>>

NextAnyKey ==
    \/ \E p \in Procs, r \in SaveForms : NoneInFlight /\ Create(p, r)
    \/ \E p \in Procs, plainText \in {"", "test"}, password \in {"", "abc"} :
          NoneInFlight /\ CallSave(p, plainText, password)
    \/ \E p \in Procs, plainText \in {"", "test"}, password \in {"", "abc"}, iv \in IVPool :
          CallEncrypt(p, plainText, password, iv)
    \/ \E p \in Procs : CallDecrypt(p)
    \/ \E p \in Procs, b \in RandBuffers, iv \in IVPool : GenerateKey(p, b, iv)
    \/ \E p \in Procs : SaveExec(p)
    \/ \E p \in Procs : Reset(p)

SpecAnyKey == InitAnyKey /\ [][NextAnyKey]_vars

\* C18: encrypt reports an error for an empty plaintext, an empty service key
\* and a key of a length AES does not accept, and Save then returns an error
\* and writes nothing: no call on such an input reports success, and every
\* stored content value holds an IV and at least one byte of ciphertext.
C18_SaveReportsCipherFailure ==
    /\ \A p \in Procs :
          (/\ kind[p] \in {"create", "save", "codec"}
           /\ ret[p].returned
           /\ \/ item[p].Content = EmptyString /\ pc[p] = "done"
              \/ ~NewCipherOk(cipherKey(item[p].Password, CipherKey))) => ~ret[p].ok
    /\ \A k \in Keys :
          HEXISTS(db[k], fieldContent) => Len(db[k].content) > 2 * BlockSize

\* ------------------------------------------------------------ item URLs
\* GetURL called as the test calls it, for either value of secure, and by
\* web.create after a Save; one call at a time.
URLKeys == {"abc", TheKey, ""}
URLHosts == {"example.com", "localhost"}

\* item := &Item{Key: key}; u := item.GetURL(r, secure); u.String()
CallGetURL(p, key, host, secure) ==
    /\ Idle(p)
    /\ kind' = [kind EXCEPT ![p] = "GetURL"]
    /\ req' = [req EXCEPT ![p] = [NoRequest EXCEPT !.method = "POST", !.host = host]]
    /\ item' = [item EXCEPT ![p] = [NoItem EXCEPT !.Key = key]]
    /\ LET u == GetURL([NoItem EXCEPT !.Key = key], host, secure) IN
       ret' = [ret EXCEPT ![p] = [returned |-> TRUE, ok |-> TRUE, err |-> "",
                                  u |-> u, str |-> URLString(u)]]
    /\ pc' = [pc EXCEPT ![p] = "done"]
    /\ UNCHANGED <<db, ended, quota, CipherKey, issued, main, times, content, tries, code, body, conn>>

NextURL ==
    \/ \E p \in Procs, key \in URLKeys, host \in URLHosts, secure \in BOOLEAN :
          NoneInFlight /\ CallGetURL(p, key, host, secure)
    \/ \E p \in Procs, r \in SaveForms : NoneInFlight /\ Create(p, r)
    \/ \E p \in Procs, b \in RandBuffers, iv \in IVPool : GenerateKey(p, b, iv)
    \/ \E p \in Procs : SaveExec(p)
    \/ \E p \in Procs : Reset(p)

SpecURL == InitSave /\ [][NextURL]_vars

C19_Step ==
    /\ \A p \in Procs, key \in URLKeys, host \in URLHosts, secure \in BOOLEAN :
          CallGetURL(p, key, host, secure) =>
              LET u == ret'[p].u IN
              /\ u.Scheme = "https" <=> secure
              /\ u.Scheme = "http" <=> ~secure
              /\ u.Host = host
              /\ u.Path = key
              /\ key # "" => ret'[p].str = u.Scheme \o "://" \o host \o "/" \o key
    /\ \A p \in Procs :
          (pc[p] = "Save" /\ code'[p] = StatusOK) =>
              body'[p].data = (IF Secure THEN "https" ELSE "http")
                                  \o "://" \o req[p].host \o "/" \o item[p].Key

\* C19: GetURL builds scheme://<request-host>/<key>: the scheme is https iff
\* secure is true and http otherwise, the host is the request's and the path
\* is exactly the item's key.
C19_GetURL == [][C19_Step]_vars

\* GetURL has answered with an https URL for the key abc.
C19_Witness ==
    \E p \in Procs :
        /\ kind[p] = "GetURL" /\ ret[p].returned
        /\ ret[p].str = "https://example.com/abc"

\* ------------------------------------------------- requests and commands
\* Consume and create requests arrive on a store holding one record, each
\* when the one before it has been answered; store commands fail and TTLs
\* elapse.
\* A record whose final DEL failed stays in the store and every later read
\* lowers its counter further; requests stop once a counter is at -MaxTimes.
Arriving == NoneInFlight /\ \A k \in Keys : db[k].times > -MaxTimes

NextRetry ==
    \/ \E p \in Clients, r \in ReadRequests : Arriving /\ WebRead(p, r)
    \/ \E p \in Procs : WebReadExists(p)
    \/ \E p \in Procs : CheckPassword(p)
    \/ \E p \in Procs : ItemRead(p)
    \/ \E p \in Clients, r \in SaveForms : Arriving /\ Create(p, r)
    \/ \E p \in Procs, b \in RandBuffers, iv \in IVPool : GenerateKey(p, b, iv)
    \/ \E p \in Procs : SaveExec(p)
    \/ \E p \in Procs : StoreError(p)
    \/ \E p \in Procs : Reset(p)
    \/ \E k \in Keys : Expire(k)

SpecRetry == InitLife /\ [][NextRetry]_vars

\* The step sends no EXEC.
NoBatch == \A p \in Procs : issued'[p].EXEC <= issued[p].EXEC

C20_Step ==
    /\ \A p \in Procs :
          /\ issued'[p].HINCRBY <= 1
          /\ issued'[p].EXEC <= 1
          /\ kind'[p] # "create" => issued'[p].EXEC = 0
          /\ kind'[p] = "create" => issued'[p].HINCRBY = 0
    /\ \A k \in Keys :
          (/\ NoBatch
           /\ HEXISTS(db[k], fieldTimes) /\ HEXISTS(db'[k], fieldTimes)
           /\ db'[k].times # db[k].times) =>
              /\ db'[k].times = db[k].times - 1
              /\ \E p \in Procs :
                    /\ item[p].Key = k
                    /\ issued[p].HINCRBY = 0 /\ issued'[p].HINCRBY = 1
                    /\ \A q \in Procs \ {p} : issued'[q] = issued[q]

\* C20: no retries: a consume request sends the quota-claiming HINCRBY at
\* most once, so it lowers the counter by at most 1, and a create request
\* executes at most one MULTI batch, on every path, the error paths included.
C20_NoRetries == [][C20_Step]_vars

\* A create request has written a record under another key and been
\* answered; the consume request after it, whose HINCRBY was sent and applied,
\* has been answered 500.
C20_Witness ==
    /\ \E k \in Keys \ {TheKey} : HEXISTS(db[k], fieldContent)
    /\ \E p \in Procs : /\ kind[p] = "consume" /\ code[p] = StatusInternalServerError
                        /\ issued[p].HINCRBY = 1
                        /\ HEXISTS(db[TheKey], fieldTimes)
                        /\ db[TheKey].times = quota[TheKey] - 1

\* ------------------------------------------------ what the store holds
\* The plaintexts the requests in progress know: passwords and contents of
\* the forms, of the items and of what Read decrypted.
Plain ==
    UNION {{req[p].password, req[p].content, item[p].Password, item[p].Content} :
              p \in Procs} \ {EmptyString}

C21_Stored ==
    \A k \in Keys :
        /\ HEXISTS(db[k], fieldContent) =>
              /\ IsLowerHex(db[k].content)
              /\ db[k].content \notin Plain
        /\ HEXISTS(db[k], fieldPassword) =>
              /\ db[k].password \notin Plain \cup {EmptyString}
              /\ \E w \in Passwords : db[k].password = "sha512(" \o w \o k \o ")"
        /\ db[k].times \in Int /\ db[k].ttl \in Nat

C21_Step ==
    /\ C21_Stored'
    /\ \A p \in Procs :
          (kind[p] \notin {"idle", "create", "save"} /\ pc'[p] # pc[p]) =>
              \A k \in Keys :
                  /\ db'[k].content \in {db[k].content, ""}
                  /\ db'[k].password \in {db[k].password, ""}

\* C21: the plaintext password and the plaintext content are never written
\* to the store: what Save writes is the ciphertext hex, the verifier, the
\* counter and the TTL, and no step of a read writes the request's password
\* or the decrypted content back.
C21_NoPlaintextStored == [][C21_Step]_vars

\* A create request has stored its record and a read of that record has
\* delivered the plaintext.
C21_Witness ==
    \E p, q \in Procs :
        /\ kind[p] = "create" /\ code[p] = StatusOK
        /\ kind[q] = "read" /\ ret[q].ok /\ item[q].Key = item[p].Key
        /\ item[q].Content = req[p].content

\* ---------------------------------------------- the counter of a record
\* C22 as stated: the times field of a live record (its content field is
\* present) is never negative, under any interleaving of concurrent readers.
C22_Original == \A k \in Keys : Exists(k) => db[k].times >= 0

\* The readers of k whose HINCRBY has been carried out.
Claimed(k) == {p \in Procs : item[p].Key = k /\ issued[p].HINCRBY = 1}
\* The reader of k whose HINCRBY answered 0 and whose DEL is still to come.
Deleting(k) ==
    {p \in Claimed(k) : times[p] = 0 /\ pc[p] \in {"ReadContent", "ReadDelete"}}

\* C22: the times field of a live record is its Times less the number of
\* HINCRBY commands carried out on it; it is negative only while the reader
\* that took it to zero has not yet deleted the record, and no reader
\* delivers on a negative reply.
C22_NegativeOnlyBeforeDelete ==
    /\ \A k \in Keys :
          Exists(k) =>
              /\ db[k].times = quota[k] - Cardinality(Claimed(k))
              /\ db[k].times < 0 => Deleting(k) # {}
    /\ \A p \in Procs : (ret[p].returned /\ ret[p].ok) => times[p] >= 0

\* The record is live with a negative counter: a second reader's HINCRBY came
\* before the first reader's DEL.
C22_Witness ==
    /\ Exists(TheKey)
    /\ db[TheKey].times < 0
    /\ \E p \in Procs : pc[p] = "ReadExists" /\ times[p] < 0

\* ------------------------------------------------ what changes a record
\* The step sends the HINCRBY of a read of k.
Claims(p, k) ==
    /\ pc[p] = "Read" /\ item[p].Key = k
    /\ issued'[p].HINCRBY = issued[p].HINCRBY + 1

\* C23 as stated: a read that does not deliver leaves every field of a live
\* record unchanged (here: a read that returned without delivering and
\* without a store error has sent no HINCRBY to a record that is live).
C23_Original ==
    \A p \in Procs :
        (/\ ret[p].returned /\ ~ret[p].ok /\ ret[p].err # "store error"
         /\ Exists(item[p].Key)) => issued[p].HINCRBY = 0

C23_Step ==
    /\ \A k \in Keys :
          (Exists(k) /\ Exists(k)') =>
              /\ db'[k].content = db[k].content
              /\ db'[k].password = db[k].password
              /\ db'[k].ttl = db[k].ttl
              /\ \/ db'[k].times = db[k].times
                 \/ /\ db'[k].times = db[k].times - 1
                    /\ \E p \in Procs : Claims(p, k)
              /\ \A p \in Procs :
                    (Claims(p, k) /\ pc'[p] \in {"ReadExists", "ReadContent"}) =>
                        db'[k].times = db[k].times - 1
    /\ \A p \in Procs :
          (pc[p] \in {"Exists", "CheckPassword"} /\ pc'[p] # pc[p]) => db' = db

\* C23: while a record is live its content, verifier and TTL never change,
\* and its times field changes only by the decrement of 1 of a read's
\* HINCRBY, whether or not that read goes on to deliver; a request refused
\* before its HINCRBY (no such key, wrong password) changes nothing.
C23_MutatedOnlyByHincrby == [][C23_Step]_vars

\* A read has returned without delivering and without a store error after
\* lowering the counter of a record that is still live.
C23_Witness ==
    \E p \in Procs :
        /\ ret[p].returned /\ ~ret[p].ok /\ ret[p].err = ""
        /\ issued[p].HINCRBY = 1
        /\ Exists(item[p].Key)
        /\ db[item[p].Key].times < 0

\* ---------------------------------------------------------- func main
\* db.GetDbPool: the three checks, in the code's order, come before the pool
\* is built and before pool.Get dials the store; ping is the store's answer
\* to the PING of the first connection.
GetDbPoolDialFirst(c, ping) ==
    IF ping # "PONG" THEN [err |-> ping, pool |-> FALSE, dialed |-> TRUE]
    ELSE IF c.Timeout < 1
    THEN [err |-> "invalid redis timeout value", pool |-> FALSE, dialed |-> TRUE]
    ELSE IF c.IndleCon < 1 \/ c.MaxCon < 1
    THEN [err |-> "invalid redis connections settings", pool |-> FALSE, dialed |-> TRUE]
    ELSE IF c.Db < 0
    THEN [err |-> "invalid db number", pool |-> FALSE, dialed |-> TRUE]
    ELSE [err |-> "", pool |-> TRUE, dialed |-> TRUE]

GetDbPool(c, ping) ==
    IF c.Timeout < 1
    THEN [err |-> "invalid redis timeout value", pool |-> FALSE, dialed |-> FALSE]
    ELSE IF c.IndleCon < 1 \/ c.MaxCon < 1
    THEN [err |-> "invalid redis connections settings", pool |-> FALSE, dialed |-> FALSE]
    ELSE IF c.Db < 0
    THEN [err |-> "invalid db number", pool |-> FALSE, dialed |-> FALSE]
    ELSE IF ping # "PONG" THEN [err |-> ping, pool |-> FALSE, dialed |-> TRUE]
    ELSE [err |-> "", pool |-> TRUE, dialed |-> TRUE]

NoPool == [pool |-> FALSE, dialed |-> FALSE]

\* conf.Cfg.isValid: [err, key, pool, dialed].
isValid(c, ping) ==
    IF c.Timeout < 1 THEN [err |-> "invalid timeout value", key |-> ""] @@ NoPool
    ELSE IF c.Port < 1 THEN [err |-> "port should be positive", key |-> ""] @@ NoPool
    ELSE IF c.TTL < 1 THEN [err |-> "ttl setting should be positive", key |-> ""] @@ NoPool
    ELSE IF c.Times < 1 THEN [err |-> "times setting should be positive", key |-> ""] @@ NoPool
    ELSE IF ~c.templates THEN [err |-> "template: parse error", key |-> ""] @@ NoPool
    ELSE LET b == DecodeString(c.Key) IN
         IF b.err # "" THEN [err |-> "can not decode secret key", key |-> ""] @@ NoPool
         ELSE LET g == GetDbPool(c.Redis, ping) IN
              [err |-> g.err, key |-> String(b.bytes), pool |-> g.pool, dialed |-> g.dialed]

\* conf.New: the file is found, read and parsed, then validated.
confNew(file, ping) ==
    IF ~file.stat THEN [err |-> "stat: no such file or directory", key |-> ""] @@ NoPool
    ELSE IF ~file.json THEN [err |-> "invalid character", key |-> ""] @@ NoPool
    ELSE isValid(file, ping)

RedisCfg == [Timeout |-> 10, IndleCon |-> 1, MaxCon |-> 10, Db |-> 0]

GoodFile ==
    [stat |-> TRUE, json |-> TRUE, Timeout |-> 10, Port |-> 8080, TTL |-> TestTTL,
     Times |-> 1, templates |-> TRUE, Key |-> EncodeToString(Bytes(ServiceKey)),
     Redis |-> RedisCfg]

RedisCfgs ==
    {[RedisCfg EXCEPT !.Timeout = t] : t \in {-1, 0, 1}}
        \cup {[RedisCfg EXCEPT !.IndleCon = i, !.MaxCon = m] : i, m \in {0, 1}}
        \cup {[RedisCfg EXCEPT !.Db = d] : d \in {-1, 0, 1}}
        \cup {[RedisCfg EXCEPT !.Timeout = 0, !.Db = -1]}

ConfigFiles ==
    {GoodFile,
     [GoodFile EXCEPT !.stat = FALSE], [GoodFile EXCEPT !.json = FALSE],
     [GoodFile EXCEPT !.Timeout = 0], [GoodFile EXCEPT !.Port = 0],
     [GoodFile EXCEPT !.TTL = 0], [GoodFile EXCEPT !.Times = 0],
     [GoodFile EXCEPT !.templates = FALSE], [GoodFile EXCEPT !.Key = "xyz"]}
        \cup {[GoodFile EXCEPT !.Redis = r] : r \in RedisCfgs}

Pings == {"PONG", "dial tcp: connection refused"}

\* The process before main runs: no configuration, no server, no goroutine.
NotStarted ==
    [pc |-> "main", goroutine |-> "none", srv |-> "new", sigint |-> 0,
     idleConnsClosed |-> FALSE, exit |-> "", err |-> "", pool |-> FALSE,
     dialed |-> FALSE]

handlers == <<kind, req, pc, item, times, content, tries, ret, code, body, conn, issued>>

Running == main.exit = ""

InFlight == {p \in Procs : kind[p] # "idle" /\ pc[p] # "done"}

\* main up to the server: -version prints and returns; a failed conf.New
\* panics, the deferred recover logs it and main returns normally.
MainStart(version, file, ping) ==
    /\ Running /\ main.pc = "main"
    /\ IF version
       THEN /\ main' = [main EXCEPT !.pc = "exited", !.exit = "0"]
            /\ UNCHANGED CipherKey
       ELSE LET c == confNew(file, ping) IN
            IF c.err # ""
            THEN /\ main' = [main EXCEPT !.pc = "exited", !.exit = "0", !.err = c.err,
                                         !.pool = c.pool, !.dialed = c.dialed]
                 /\ UNCHANGED CipherKey
            ELSE /\ main' = [main EXCEPT !.pc = "go", !.pool = c.pool, !.dialed = c.dialed]
                 /\ CipherKey' = c.key
    /\ UNCHANGED <<db, ended, quota, handlers>>

\* go func() { ... }()
MainGo ==
    /\ Running /\ main.pc = "go"
    /\ main' = [main EXCEPT !.pc = "ListenAndServe", !.goroutine = "Notify"]
    /\ UNCHANGED <<db, ended, quota, CipherKey, handlers>>

\* signal.Notify(sigint, os.Interrupt, syscall.SIGTERM)
GoNotify ==
    /\ Running /\ main.goroutine = "Notify"
    /\ main' = [main EXCEPT !.goroutine = "sigint"]
    /\ UNCHANGED <<db, ended, quota, CipherKey, handlers>>

\* SIGINT or SIGTERM arrives. Before signal.Notify the default disposition
\* ends the process; afterwards the signal goes to the channel of capacity 1
\* and is dropped when the channel is full.
Signal ==
    /\ Running
    /\ IF main.goroutine \in {"none", "Notify"}
       THEN main' = [main EXCEPT !.pc = "exited", !.exit = "signal"]
       ELSE main' = [main EXCEPT !.sigint = 1]
    /\ UNCHANGED <<db, ended, quota, CipherKey, handlers>>

\* <-sigint, then srv.Shutdown closes the listeners.
GoShutdown ==
    /\ Running /\ main.goroutine = "sigint" /\ main.sigint > 0
    /\ main' = [main EXCEPT !.sigint = 0, !.goroutine = "Shutdown", !.srv = "closed"]
    /\ UNCHANGED <<db, ended, quota, CipherKey, handlers>>

\* srv.Shutdown returns once no connection is active.
GoDrained ==
    /\ Running /\ main.goroutine = "Shutdown" /\ InFlight = {}
    /\ main' = [main EXCEPT !.goroutine = "close"]
    /\ UNCHANGED <<db, ended, quota, CipherKey, handlers>>

\* close(idleConnsClosed)
GoClose ==
    /\ Running /\ main.goroutine = "close"
    /\ main' = [main EXCEPT !.goroutine = "end", !.idleConnsClosed = TRUE]
    /\ UNCHANGED <<db, ended, quota, CipherKey, handlers>>

\* srv.ListenAndServe binds the port, or fails and is only logged.
Listen(ok) ==
    /\ Running /\ main.pc = "ListenAndServe" /\ main.srv = "new"
    /\ IF ok THEN main' = [main EXCEPT !.srv = "listening"]
       ELSE main' = [main EXCEPT !.srv = "failed", !.pc = "idleConnsClosed",
                                 !.err = "listen tcp: address already in use"]
    /\ UNCHANGED <<db, ended, quota, CipherKey, handlers>>

\* srv.ListenAndServe returns http.ErrServerClosed after Shutdown.
ServerClosed ==
    /\ Running /\ main.pc = "ListenAndServe" /\ main.srv = "closed"
    /\ main' = [main EXCEPT !.pc = "idleConnsClosed"]
    /\ UNCHANGED <<db, ended, quota, CipherKey, handlers>>

\* <-idleConnsClosed, then "stopped" is logged.
MainStoppedWithoutWait ==
    /\ Running /\ main.pc = "idleConnsClosed"
    /\ main' = [main EXCEPT !.pc = "stopped"]
    /\ UNCHANGED <<db, ended, quota, CipherKey, handlers>>

MainStopped ==
    /\ Running /\ main.pc = "idleConnsClosed" /\ main.idleConnsClosed
    /\ main' = [main EXCEPT !.pc = "stopped"]
    /\ UNCHANGED <<db, ended, quota, CipherKey, handlers>>

\* main returns: the deferred cfg.Close closes the pool, nothing is recovered.
MainReturn ==
    /\ Running /\ main.pc = "stopped"
    /\ main' = [main EXCEPT !.pc = "exited", !.exit = "0", !.pool = FALSE]
    /\ UNCHANGED <<db, ended, quota, CipherKey, handlers>>

\* The listener accepts a request while it is open.
Accept(p, r) == Running /\ main.srv = "listening" /\ WebRead(p, r)

Serve(p) == Running /\ WebReadExists(p)

MainRequests ==
    {[NoRequest EXCEPT !.method = "GET", !.key = k] : k \in Keys \cup {"abc"}}

InitMain ==
    /\ db = [k \in Keys |-> IF k = TheKey
                            THEN Saved(TheKey, "secret", "abc", 1, TestTTL)
                            ELSE NoHash]
    /\ quota = [k \in Keys |-> IF k = TheKey THEN 1 ELSE 0]
    /\ ended = [k \in Keys |-> FALSE]
    /\ CipherKey = EmptyString
    /\ kind = [p \in Procs |-> "idle"]
    /\ pc = [p \in Procs |-> "idle"]
    /\ req = [p \in Procs |-> NoRequest]
    /\ item = [p \in Procs |-> NoItem]
    /\ times = [p \in Procs |-> 0]
    /\ content = [p \in Procs |-> ""]
    /\ tries = [p \in Procs |-> 0]
    /\ ret = [p \in Procs |-> NoRet]
    /\ code = [p \in Procs |-> 0]
    /\ body = [p \in Procs |-> NoBody]
    /\ issued = [p \in Procs |-> NoneIssued]
    /\ conn = [p \in Procs |-> NoConn]
    /\ main = NotStarted

NextMain ==
    \/ \E version \in BOOLEAN, file \in ConfigFiles, ping \in Pings :
          MainStart(version, file, ping)
    \/ MainGo
    \/ GoNotify
    \/ Signal
    \/ GoShutdown
    \/ GoDrained
    \/ GoClose
    \/ \E ok \in BOOLEAN : Listen(ok)
    \/ ServerClosed
    \/ MainStopped
    \/ MainReturn
    \/ \E p \in Clients, r \in MainRequests : Accept(p, r)
    \/ \E p \in Clients : Serve(p)

SpecMain == InitMain /\ [][NextMain]_vars

\* The Go scheduler runs every runnable goroutine: main, the signal goroutine
\* and each handler take their next step when it stays possible.
FairSpecMain ==
    /\ SpecMain
    /\ WF_vars(GoShutdown) /\ WF_vars(GoDrained) /\ WF_vars(GoClose)
    /\ WF_vars(ServerClosed) /\ WF_vars(MainStopped) /\ WF_vars(MainReturn)
    /\ \A p \in Clients : WF_vars(Serve(p))

\* C24: after SIGINT or SIGTERM the shutdown is graceful: main reaches
\* "stopped", and the exit that follows it, only after srv.Shutdown has
\* returned, with the listener closed and no request in flight; and a signal
\* delivered to the process eventually leads to its exit.
ShutdownReturned == main.goroutine \in {"close", "end"}
C24_Ordered ==
    (main.pc = "stopped" \/ (main.pc = "exited" /\ main.goroutine \notin {"none", "Notify"}))
        => /\ ShutdownReturned
           /\ main.srv = "closed"
           /\ InFlight = {}
C24_Step ==
    /\ (~ShutdownReturned /\ ShutdownReturned') => (main.srv = "closed" /\ InFlight = {})
    /\ (main.srv = "closed") => (main.srv' = "closed" /\ InFlight' \subseteq InFlight)
StartupFailed == main.pc = "exited" /\ main.goroutine = "none" /\ main.err # ""
CleanShutdown == main.pc = "exited" /\ main.goroutine = "end"
C25_ExitCodes ==
    /\ CleanShutdown => main.exit = "0"
    /\ StartupFailed => main.exit # "0"

\* C27: GetDbPool rejects a configuration with redis timeout < 1, with idle
\* or max connection count < 1, or with DB index < 0: it returns an error and
\* no pool, and no connection to the store has been attempted.
Rejected(c) == c.Timeout < 1 \/ c.IndleCon < 1 \/ c.MaxCon < 1 \/ c.Db < 0
PoolErrors ==
    {"invalid redis timeout value", "invalid redis connections settings", "invalid db number"}
C27_Step ==
    \A file \in ConfigFiles, ping \in Pings :
        (/\ MainStart(FALSE, file, ping)
         /\ [file EXCEPT !.Redis = RedisCfg] = GoodFile)
            => LET g == GetDbPool(file.Redis, ping) IN
               /\ main'.err = g.err /\ main'.pool = g.pool /\ main'.dialed = g.dialed
               /\ Rejected(file.Redis) =>
                    /\ g.err \in PoolErrors /\ ~g.pool /\ ~g.dialed
                    /\ main'.pc = "exited"
               /\ ~Rejected(file.Redis) => g.dialed /\ (g.pool <=> ping = "PONG")
C27_GetDbPoolValidates == [][C27_Step]_vars
C27_Witness ==
    main.pc = "exited" /\ main.err = "invalid db number" /\ ~main.pool /\ ~main.dialed

\* ------------------------------------------------ the borrowed connection
\* Create and read requests of every outcome arrive one after another on a
\* store holding one record: rejected forms, keys of the wrong length, keys
\* without a record, right and wrong passwords, failing store commands and
\* a failing random source.
ConnRequests ==
    ReadRequests
        \cup {[NoRequest EXCEPT !.method = m, !.key = k, !.password = "abc"] :
                 m \in {"GET", "POST"}, k \in (Keys \ {TheKey}) \cup {"abc"}}

NextConn ==
    \/ \E p \in Clients, r \in ConnRequests : Arriving /\ WebRead(p, r)
    \/ \E p \in Procs : WebReadExists(p)
    \/ \E p \in Procs : CheckPassword(p)
    \/ \E p \in Procs : ItemRead(p)
    \/ \E p \in Clients, r \in SaveForms \cup BadForms : Arriving /\ Create(p, r)
    \/ \E p \in Procs, b \in RandBuffers, iv \in IVPool : GenerateKey(p, b, iv)
    \/ \E p \in Procs : RandError(p)
    \/ \E p \in Procs : SaveExec(p)
    \/ \E p \in Procs : StoreError(p)
    \/ \E p \in Procs : Reset(p)
    \/ \E k \in Keys : Expire(k)

SpecConn == InitLife /\ [][NextConn]_vars

\* C26: a request that borrows a store connection releases it exactly once
\* before its handler returns, on every exit path of create and Read; a
\* request never holds more than one connection, and a request rejected
\* before the borrow (a bad form, a key of the wrong length) holds none.
Borrows(p) ==
    \/ kind[p] = "create" /\ New(req[p], SettingsTTL, SettingsTimes).err = ""
    \/ kind[p] \in {"fetch", "consume"} /\ Len(req[p].key) = KeyLen * 2
C26_ReleasedOnce ==
    \A p \in Procs :
        /\ conn[p].Get = (IF Borrows(p) THEN 1 ELSE 0)
        /\ conn[p].Close = (IF pc[p] = "done" THEN conn[p].Get ELSE 0)
C26_Witness ==
    \E p \in Procs :
        /\ kind[p] = "consume" /\ pc[p] = "done"
        /\ code[p] = StatusInternalServerError
        /\ conn[p] = [Get |-> 1, Close |-> 1]

\* C28 as stated: within one consume request the store commands are issued
\* strictly in the order HEXISTS content, HGET password, HINCRBY times, HGET
\* content, then DEL only when the HINCRBY result is 0; the HINCRBY only
\* after a true existence check and a successful comparison in that request;
\* plaintext is rendered only if Read returned delivered = true.
Advances(p) == kind'[p] = "consume" /\ pc[p] \notin {"idle", "done"} /\ pc'[p] \notin {pc[p], "done"}
OrderClaimed ==
    {<<"Exists", "CheckPassword">>, <<"CheckPassword", "Read">>,
     <<"Read", "ReadContent">>, <<"ReadContent", "ReadDelete">>}
Checked(p) ==
    LET k == item[p].Key IN
    (kind'[p] = "consume" /\ pc'[p] # pc[p]) =>
    /\ pc'[p] = "CheckPassword" => pc[p] = "Exists" /\ HEXISTS(db[k], fieldContent)
    /\ pc'[p] = "Read" => /\ pc[p] = "CheckPassword"
                          /\ HEXISTS(db[k], fieldPassword)
                          /\ db[k].password = hashPassword(req[p].password, k)
    /\ issued'[p].HINCRBY # issued[p].HINCRBY => pc[p] = "Read"
Rendered(p) ==
    (kind'[p] = "consume" /\ body'[p].tpl = "content")
        => ret'[p].returned /\ ret'[p].ok /\ body'[p].data = item'[p].Content
C28_OriginalStep ==
    \A p \in Procs :
        /\ Advances(p) => /\ <<pc[p], pc'[p]>> \in OrderClaimed
                          /\ Command(p)' = "DEL" => times'[p] = 0
        /\ Checked(p)
        /\ Rendered(p)
C28_Original == [][C28_OriginalStep]_vars

\* C28: within one consume request the store commands are issued one after
\* another in the order HEXISTS content, HGET password, HINCRBY times and
\* then, for a result >= 0, HGET content and a DEL exactly when the result
\* is 0, or, for a result < 0, a second HEXISTS content and a DEL exactly
\* when the content field is absent; the HINCRBY is issued only after a true
\* existence check and a successful comparison in that request, and
\* plaintext is rendered only if Read returned delivered = true.
OrderIssued == OrderClaimed \cup {<<"Read", "ReadExists">>, <<"ReadExists", "ReadRepair">>}
C28_Step ==
    \A p \in Procs :
        /\ Advances(p) =>
             /\ <<pc[p], pc'[p]>> \in OrderIssued
             /\ pc'[p] = "ReadContent" => times'[p] >= 0
             /\ pc'[p] = "ReadExists" => times'[p] < 0
             /\ pc'[p] = "ReadDelete" => times[p] = 0
             /\ pc'[p] = "ReadRepair" => times[p] < 0 /\ ~HEXISTS(db[item[p].Key], fieldContent)
        /\ (kind[p] = "consume" /\ pc[p] = "ReadContent" /\ pc'[p] = "done" /\ ret'[p].err = "")
               => times[p] > 0
        /\ (kind[p] = "consume" /\ pc[p] = "ReadExists" /\ pc'[p] = "done" /\ ret'[p].err = "")
               => HEXISTS(db[item[p].Key], fieldContent)
        /\ Checked(p)
        /\ Rendered(p)
C28_CommandOrder == [][C28_Step]_vars
C28_Witness ==
    \E p \in Procs :
        /\ kind[p] = "consume" /\ pc[p] = "ReadRepair" /\ times[p] < 0
        /\ issued[p].HINCRBY = 1

\* ------------------------------------------------------------ late readers
\* Item.Read is called, by any number of callers at any time, on a key that
\* was never created or whose record (Times = T) is used up or expires while
\* they run.  No store command fails.
InitPhantom ==
    /\ \E T \in 0..MaxTimes :
         db = [k \in Keys |-> IF k = TheKey /\ T > 0
                              THEN Saved(TheKey, "secret", "abc", T, TestTTL)
                              ELSE NoHash]
    /\ quota = [k \in Keys |-> db[k].times]
    /\ CipherKey = ServiceKey
    /\ ended = [k \in Keys |-> FALSE]
    /\ Start

NextPhantom ==
    \/ \E p \in Procs : CallRead(p, TheKey, "abc")
    \/ \E p \in Procs : ItemRead(p)
    \/ \E k \in Keys : Expire(k)

SpecPhantom == InitPhantom /\ [][NextPhantom]_vars

\* C29: a read on a key that has no record never delivers plaintext, and once
\* every read of that key has completed the key is entirely absent from the
\* store: the times field that HINCRBY recreated does not survive, for any
\* number and interleaving of late readers.
Late(p) == issued[p].HINCRBY = 1 /\ times[p] < 0
C29_Settled ==
    /\ \A p \in Procs : Late(p) => ~ret[p].ok /\ item[p].Content = ""
    /\ (\A p \in Procs : pc[p] \in {"idle", "done"}) =>
           \A k \in Keys : ~Exists(k) => db[k] = NoHash
C29_Step ==
    /\ C29_Settled'
    /\ \A p \in Procs :
          (pc[p] = "Read" /\ pc'[p] # "Read" /\ ~Exists(item[p].Key)) => Late(p)'
C29_PhantomRepaired == [][C29_Step]_vars
C29_Witness ==
    /\ \A p \in Procs : pc[p] = "done" /\ Late(p)
    /\ \E p, q \in Procs : times[p] = -1 /\ times[q] = -2
    /\ db[TheKey] = NoHash

\* ---------------------------------------------------- the reply of EXEC
\* One create request at a time on a fresh server; the connection hands Save
\* a reply of any shape to its EXEC: no list, a list of another length, or
\* elements that are integers, bulk strings, nil, errors or status strings.
Elements ==
    {Int64(1), Int64(0), [type |-> "bytes", val |-> "true"], [type |-> "nil", val |-> ""]}

Replies ==
    {[type |-> "nil", val |-> << >>], [type |-> "string", val |-> << >>], Int64(1),
     List(<< >>), List(<<Int64(1), Int64(1), Int64(1)>>),
     List(<<Int64(1), Int64(1), Int64(1), Int64(1), Int64(1)>>),
     List(<<Int64(1), [type |-> "string", val |-> "OK"], Int64(1), Int64(1)>>),
     List(<<Int64(2), [type |-> "bytes", val |-> "x"], Int64(1), Int64(1)>>),
     List(<<Int64(1), Int64(1), Int64(1), [type |-> "error", val |-> "WRONGTYPE"]>>)}
        \cup {List(l) : l \in [1..4 -> Elements]}

SaveReply(p, r) == SaveGot(p, r)

NextExec ==
    \/ \E p \in Clients, f \in SaveForms : NoneInFlight /\ Create(p, f)
    \/ \E p \in Procs, b \in RandBuffers, iv \in IVPool : GenerateKey(p, b, iv)
    \/ \E p \in Procs, r \in Replies : SaveReply(p, r)
    \/ \E p \in Procs : Reset(p)

SpecExec == InitSave /\ [][NextExec]_vars

\* C30: Save returns success only if EXEC returned exactly four results and
\* each converts to a true boolean; if the result is not a list, has a length
\* other than 4, or any element is false or not boolean, Save returns an
\* error.
Truthy(v) ==
    \/ v.type = "int64" /\ v.val # 0
    \/ v.type = "bytes" /\ v.val \in ParseBoolTrue
FourTrue(r) == r.type = "list" /\ Len(r.val) = 4 /\ \A i \in 1..4 : Truthy(r.val[i])
Results == {<<r, ExecResult(r)>> : r \in Replies}
C30_Step ==
    \A p \in Procs :
        pc[p] = "Save" =>
        \A x \in {y \in Results : y[2] = ret'[p].err}:
        LET r == x[1] IN
        SaveReply(p, r) =>
            /\ ret'[p].returned
            /\ ret'[p].ok <=> FourTrue(r)
            /\ ret'[p].ok <=> ret'[p].err = ""
            /\ code'[p] = (IF FourTrue(r) THEN StatusOK ELSE StatusInternalServerError)
C30_SaveNeedsFourTrue == [][C30_Step]_vars
C30_Witness ==
    \E p \in Procs :
        /\ kind[p] = "create" /\ ret[p].err = "failed operation=2 bool convertion"
        /\ code[p] = StatusInternalServerError
        /\ Exists(item[p].Key)

\* ------------------------------------------------------------ Item.Exists
\* Item.Exists called directly on an Item with Key k (db_test.go,
\* TestItem_Exists), while late readers leave and repair keys that hold only
\* a times field.
CallExists(p, k) ==
    /\ Idle(p)
    /\ kind' = [kind EXCEPT ![p] = "exists"]
    /\ item' = [item EXCEPT ![p] = [NoItem EXCEPT !.Key = k]]
    /\ ret' = [ret EXCEPT ![p] = [returned |-> TRUE, ok |-> HEXISTS(db[k], fieldContent),
                                 err |-> ""]]
    /\ pc' = [pc EXCEPT ![p] = "done"]
    /\ UNCHANGED <<db, ended, quota, CipherKey, issued, main, req, times, content, tries, code, body, conn>>

NextExists ==
    \/ \E p \in Procs, k \in Keys : CallExists(p, k)
    \/ \E p \in Clients : CallRead(p, TheKey, "abc")
    \/ \E p \in Procs : ItemRead(p)
    \/ \E k \in Keys : Expire(k)

SpecExists == InitPhantom /\ [][NextExists]_vars

\* C31: Exists(key) returns true if and only if the key's content field is
\* present in the store; a key that holds only a times field is reported as
\* not existing, and Exists changes nothing in the store.
OnlyTimes(k) == db[k].fields = {fieldTimes}
C31_Step ==
    \A p \in Procs, k \in Keys :
        CallExists(p, k) =>
            /\ ret'[p].ok <=> fieldContent \in db[k].fields
            /\ OnlyTimes(k) => ~ret'[p].ok
            /\ ret'[p].err = ""
            /\ db' = db
C31_ExistsIffContent == [][C31_Step]_vars
C31_Witness ==
    \E p \in Procs :
        /\ kind[p] = "exists" /\ ret[p].returned /\ ~ret[p].ok
        /\ OnlyTimes(item[p].Key)

\* C32: if the DEL issued by the read that consumed the last quota does not
\* report success, Read returns an error and delivered = false, hands no
\* plaintext to the caller, and the handler answers 500.
NotDeleted(p) ==
    /\ pc[p] = "ReadDelete" /\ pc'[p] = "done"
    /\ db[item[p].Key].fields = {}
C32_Step ==
    \A p \in Procs :
        NotDeleted(p) =>
            /\ times[p] = 0
            /\ ret'[p].returned /\ ~ret'[p].ok /\ ret'[p].err # ""
            /\ item'[p].Content = ""
            /\ kind[p] = "consume" =>
                 /\ code'[p] = StatusInternalServerError
                 /\ body'[p] = Error(StatusInternalServerError)
C32_DeletionFailed == [][C32_Step]_vars
C32_Witness ==
    \E p \in Procs :
        /\ kind[p] = "consume" /\ ret[p].err = "item was not deleted"
        /\ code[p] = StatusInternalServerError /\ times[p] = 0

\* ------------------------------------------------------------ empty keys
\* Item.delete: an empty key is an error before any command; otherwise DEL
\* key, whose reply tells whether the key was there.
deleteSilent(k) ==
    IF k = EmptyString THEN [err |-> "", ok |-> FALSE, sent |-> FALSE]
    ELSE [err |-> "", ok |-> DelReply(db[k]), sent |-> TRUE]

delete(k) ==
    IF k = EmptyString THEN [err |-> "empty key for delete", ok |-> FALSE, sent |-> FALSE]
    ELSE [err |-> "", ok |-> DelReply(db[k]), sent |-> TRUE]

\* A direct call of Item.delete on an Item with Key k.
CallDelete(p, k) ==
    /\ Idle(p)
    /\ kind' = [kind EXCEPT ![p] = "delete"]
    /\ item' = [item EXCEPT ![p] = [NoItem EXCEPT !.Key = k]]
    /\ LET d == delete(k) IN
       /\ ret' = [ret EXCEPT ![p] = [returned |-> TRUE, ok |-> d.ok, err |-> d.err]]
       /\ db' = IF d.sent THEN [db EXCEPT ![k] = DEL(@)] ELSE db
       /\ ended' = IF d.sent THEN [ended EXCEPT ![k] = TRUE] ELSE ended
    /\ pc' = [pc EXCEPT ![p] = "done"]
    /\ UNCHANGED <<quota, CipherKey, issued, main, req, times, content, tries, code, body, conn>>

\* Item.Read and Item.delete are called on Items with and without a key, on
\* a store holding one record.
NextEmpty ==
    \/ \E p \in Procs, k \in {EmptyString, TheKey} : CallRead(p, k, "abc")
    \/ \E p \in Procs : ItemRead(p)
    \/ \E p \in Procs, k \in {EmptyString} \cup Keys : CallDelete(p, k)

SpecEmpty == InitLife /\ [][NextEmpty]_vars

\* C33: Read with an empty key returns (false, no error) without issuing any
\* store operation, and delete with an empty key returns an error without
\* issuing DEL; the store is unchanged in both cases.
C33_Step ==
    /\ \A p \in Procs :
          (pc[p] = "Read" /\ item[p].Key = EmptyString /\ pc'[p] # pc[p]) =>
              /\ Command(p) = ""
              /\ pc'[p] = "done"
              /\ ret'[p] = [returned |-> TRUE, ok |-> FALSE, err |-> ""]
              /\ item'[p].Content = ""
              /\ db' = db /\ issued' = issued
    /\ \A p \in Procs :
          CallDelete(p, EmptyString) =>
              /\ ret'[p].returned /\ ~ret'[p].ok /\ ret'[p].err # ""
              /\ db' = db
C33_EmptyKey == [][C33_Step]_vars
C33_Witness ==
    \E p, q \in Procs :
        /\ kind[p] = "read" /\ item[p].Key = EmptyString /\ ret[p].returned
        /\ kind[q] = "delete" /\ item[q].Key = EmptyString /\ ret[q].returned
        /\ Exists(TheKey)

\* -------------------------------------------------------------- web.Error
\* web.Error(w, cfg, code): when w is an http.ResponseWriter the code is
\* written as the status; the error template is executed with the message of
\* the code; the code is returned, or 500 when the template fails.
StatusMethodNotAllowed == 405
WebError(isResponseWriter, c, renders) ==
    [status |-> IF isResponseWriter THEN c ELSE 0,
     page |-> IF renders THEN Error(c) ELSE NoBody,
     code |-> IF renders THEN c ELSE StatusInternalServerError]

ErrorCodes ==
    {StatusNotFound, StatusBadRequest, StatusInternalServerError, StatusMethodNotAllowed}

\* code := Error(w, cfg, c) as the test calls it, with a recorder or a plain
\* writer, and with a template that renders or fails.
CallError(p, isResponseWriter, c, renders) ==
    /\ Idle(p)
    /\ kind' = [kind EXCEPT ![p] = "Error"]
    /\ LET e == WebError(isResponseWriter, c, renders) IN
       /\ code' = [code EXCEPT ![p] = e.status]
       /\ body' = [body EXCEPT ![p] = e.page]
       /\ ret' = [ret EXCEPT ![p] = [returned |-> TRUE, ok |-> renders, err |-> "",
                                    code |-> e.code]]
    /\ pc' = [pc EXCEPT ![p] = "done"]
    /\ UNCHANGED <<db, ended, quota, CipherKey, issued, main, req, item, times, content, tries, conn>>

ErrorRequests ==
    {[NoRequest EXCEPT !.method = "GET", !.key = k] : k \in Keys \cup {"abc"}}

NextError ==
    \/ \E p \in Procs, w \in BOOLEAN, c \in ErrorCodes, renders \in BOOLEAN :
          NoneInFlight /\ CallError(p, w, c, renders)
    \/ \E p \in Clients, r \in ErrorRequests : WebRead(p, r)
    \/ \E p \in Procs : WebReadExists(p)
    \/ \E p \in Procs : Reset(p)

SpecError == InitLife /\ [][NextError]_vars

\* C34: Error(w, cfg, code) writes code as the response status and returns
\* that same code for every code when the error template renders (500 only if
\* the template fails), choosing the message by code: 404 gives "Page not
\* found", 400 gives "Bad createData", any other code gives "Sorry, it is an
\* error".
Message(c) ==
    IF c = 404 THEN "Page not found"
    ELSE IF c = 400 THEN "Bad createData"
    ELSE "Sorry, it is an error"
C34_Step ==
    /\ \A p \in Procs, w \in BOOLEAN, c \in ErrorCodes, renders \in BOOLEAN :
          CallError(p, w, c, renders) =>
              /\ w => code'[p] = c
              /\ renders => /\ ret'[p].code = c
                            /\ body'[p].tpl = "error" /\ body'[p].msg = Message(c)
              /\ ret'[p].code # c => ~renders /\ ret'[p].code = 500
    /\ \A p \in Procs :
          (kind'[p] = "fetch" /\ pc'[p] = "done" /\ pc[p] # "done" /\ code'[p] # StatusOK) =>
              /\ body'[p].tpl = "error" /\ body'[p].msg = Message(code'[p])
C34_ErrorPage == [][C34_Step]_vars
C34_Witness ==
    \E p, q \in Procs :
        /\ kind[p] = "Error" /\ code[p] = StatusMethodNotAllowed /\ ret[p].code = code[p]
        /\ body[p].msg = "Sorry, it is an error"
        /\ kind[q] = "fetch" /\ code[q] = StatusNotFound /\ body[q].msg = "Page not found"

\* C35: without TTL expiry, deletion from outside and store failure, the DEL
\* issued by the reader that observed HINCRBY = 0 always reports success: no
\* other reader deletes a key whose content field is present, and that
\* reader's HGET of content always finds the field.
Moves(p) == pc'[p] # pc[p]
C35_Step ==
    /\ \A p \in Procs :
          (Moves(p) /\ pc[p] = "ReadDelete") =>
              /\ Exists(item[p].Key) /\ DelReply(db[item[p].Key])
              /\ ret'[p].ok /\ ret'[p].err = ""
    /\ \A p \in Procs :
          (Moves(p) /\ pc[p] = "ReadContent" /\ times[p] = 0) =>
              /\ Exists(item[p].Key)
              /\ pc'[p] = "ReadDelete"
    /\ \A k \in Keys :
          (Exists(k) /\ ~Exists(k)') =>
              \E p \in Procs : Moves(p) /\ pc[p] = "ReadDelete" /\ times[p] = 0 /\ item[p].Key = k
    /\ \A p \in Procs : ret'[p].err # "item was not deleted"
C35_DeleteSucceeds == [][C35_Step]_vars
C35_Witness ==
    \E p, q \in Procs :
        /\ pc[p] = "done" /\ times[p] = 0 /\ ret[p].ok
        /\ pc[q] = "ReadRepair" /\ times[q] < 0
        /\ db[TheKey].fields = {fieldTimes}

\* C36: after a record's key has been deleted, every later HINCRBY by
\* Item.Read on that key observes a negative value (a key recreated by
\* HINCRBY starts at -1 and only decreases), so no read on a recreated key
\* reaches the content-fetch branch and at most one reader per saved record
\* observes 0.
SawZero == {p \in Procs : issued[p].HINCRBY = 1 /\ times[p] = 0}
C36_Step ==
    /\ \A p \in Procs :
          (Moves(p) /\ pc[p] = "Read" /\ ended[item[p].Key]) =>
              /\ ~Exists(item[p].Key)
              /\ times'[p] < 0
              /\ pc'[p] = "ReadExists"
    /\ \A p \in Procs :
          (Moves(p) /\ pc'[p] = "ReadContent") =>
              /\ Exists(item[p].Key) /\ ~ended[item[p].Key]
    /\ \A k \in Keys :
          /\ (~OnlyTimes(k) /\ OnlyTimes(k)') => db'[k].times = -1
          /\ (OnlyTimes(k) /\ OnlyTimes(k)') => db'[k].times <= db[k].times
    /\ Cardinality(SawZero') <= 1
C36_NegativeAfterDelete == [][C36_Step]_vars
C36_Witness ==
    /\ ended[TheKey] /\ OnlyTimes(TheKey) /\ db[TheKey].times = -2
    /\ \E p \in Procs : times[p] = 0 /\ ret[p].ok

\* ------------------------------------------------------- racing requests
\* Fetch and consume requests for one record arrive together and its TTL may
\* elapse at any moment; every store command is answered.
NextRace ==
    \/ \E p \in Clients, r \in ReadRequests : WebRead(p, r)
    \/ \E p \in Procs : WebReadExists(p)
    \/ \E p \in Procs : CheckPassword(p)
    \/ \E p \in Procs : ItemRead(p)
    \/ \E k \in Keys : Expire(k)

SpecRace == InitLife /\ [][NextRace]_vars

\* C37: when every store command succeeds, a consume request that races with
\* other consume requests on the same record, or with the record's TTL
\* expiry, ends in 200 with plaintext, 400 or 404 and never in 500.
C37_NeverInternalError ==
    \A p \in Procs :
        (kind[p] = "consume" /\ pc[p] = "done") =>
            /\ code[p] \in {StatusOK, StatusBadRequest, StatusNotFound}
            /\ code[p] = StatusOK => body[p].data = "secret"

\* C38: even when a store command of a read may fail and abort its request,
\* once all requests have completed every key left in the store is a complete
\* record (content, verifier and times present, expiry set) with times >= 1.
Complete(h) ==
    /\ h.fields = {fieldContent, fieldPassword, fieldTimes}
    /\ h.ttl > 0
    /\ h.times >= 1
C38_OnlyCompleteRecords ==
    (\A p \in Procs : pc[p] \in {"idle", "done"}) =>
        \A k \in Keys : db[k] = NoHash \/ Complete(db[k])

\* C39: when srv.ListenAndServe fails to start (an error other than
\* http.ErrServerClosed, e.g. the address is in use), main terminates without
\* a SIGINT or SIGTERM having to arrive: it does not stay blocked on
\* idleConnsClosed for ever.
ListenFailed == main.srv = "failed"
C39_FailedListenTerminates == ListenFailed ~> (main.pc = "exited")

\* ------------------------------------------------- an Item used again
\* Item.CheckPassword on the Item it: hashPassword fills it.hPassword only
\* when that field is empty; HGET key password, whose nil reply is
\* redis.ErrNil; then hmac.Equal on it.hPassword and the stored hash.
ItemCheckPassword(it) ==
    LET hp == IF it.hPassword = "" THEN hashPassword(it.Password, it.Key)
              ELSE it.hPassword
        h == db[it.Key]
    IN  IF ~HEXISTS(h, fieldPassword)
        THEN [ok |-> FALSE, err |-> "redigo: nil returned", hPassword |-> hp]
        ELSE [ok |-> Equal(hp, h.password), err |-> "", hPassword |-> hp]

ReusePasswords == {"abc", "bad"}

\* The caller builds an Item for TheKey; saved: it is the Item whose Save
\* wrote the record, which left the hash of its password in hPassword.
NewItem(p, password, saved) ==
    /\ Idle(p)
    /\ saved => db[TheKey] # NoHash /\ db[TheKey].password = hashPassword(password, TheKey)
    /\ kind' = [kind EXCEPT ![p] = "check"]
    /\ item' = [item EXCEPT ![p] =
                  [NoItem EXCEPT !.Key = TheKey, !.Password = password,
                                 !.hPassword = IF saved THEN hashPassword(password, TheKey)
                                               ELSE ""]]
    /\ pc' = [pc EXCEPT ![p] = "item"]
    /\ UNCHANGED <<db, ended, quota, CipherKey, issued, main, req, times, content, tries, ret, code, body, conn>>

\* item.Password = password, with or without item.hPassword = "" as in
\* TestItem_CheckPassword.
SetPassword(p, password, reset) ==
    /\ kind[p] = "check" /\ pc[p] \in {"item", "done"}
    /\ item' = [item EXCEPT ![p].Password = password,
                            ![p].hPassword = IF reset THEN "" ELSE @]
    /\ ret' = [ret EXCEPT ![p] = NoRet]
    /\ pc' = [pc EXCEPT ![p] = "item"]
    /\ UNCHANGED <<db, ended, quota, CipherKey, issued, main, kind, req, times, content, tries, code, body, conn>>

\* ok, err := item.CheckPassword(conn)
CallCheckPassword(p) ==
    /\ kind[p] = "check" /\ pc[p] = "item"
    /\ LET r == ItemCheckPassword(item[p]) IN
         /\ item' = [item EXCEPT ![p].hPassword = r.hPassword]
         /\ ret' = [ret EXCEPT ![p] = [returned |-> TRUE, ok |-> r.ok, err |-> r.err]]
    /\ pc' = [pc EXCEPT ![p] = "done"]
    /\ UNCHANGED <<db, ended, quota, CipherKey, issued, main, kind, req, times, content, tries, code, body, conn>>

NextReuse ==
    \/ \E p \in Clients, w \in ReusePasswords, saved \in BOOLEAN : NewItem(p, w, saved)
    \/ \E p \in Clients, w \in ReusePasswords, reset \in BOOLEAN : SetPassword(p, w, reset)
    \/ \E p \in Clients : CallCheckPassword(p)
    \/ \E k \in Keys : Expire(k)

SpecReuse == InitLife /\ [][NextReuse]_vars

\* C40: the result of Item.CheckPassword depends only on the item's current
\* Password, its Key and the verifier stored for that key: after item.Password
\* was changed on an Item that carries a computed verifier, the call answers
\* for the new password, the caller resetting no cached field.
C40_Step ==
    \A p \in Clients :
        (CallCheckPassword(p) /\ ret'[p].err = "") =>
            ret'[p].ok = (hashPassword(item[p].Password, item[p].Key)
                             = db[item[p].Key].password)
C40_DependsOnPassword == [][C40_Step]_vars

====
